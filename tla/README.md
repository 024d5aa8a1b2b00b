# Arma Reforger Mod Manager: a TLA+ verification project

The Mod Manager keeps, for several users and *modsets*, which Workshop mods are
installed in which version, follows their dependencies, and checks the Workshop
for updates. It is a FastAPI backend over PostgreSQL, a React frontend, and a
small probe service that asks a game server binary for reliable versions. This
directory holds TLA+ models of its behaviour, TLC instances of them, and proofs
checked by TLAPS. Paths below are relative to `src/`.

## 1. Inventory

| Part | Code | State it keeps | Operations | Hard behaviour |
|------|------|----------------|------------|----------------|
| Manual refresh jobs | `backend/app/refresh_jobs.py`, `routers/mods.py:131-195` | `mod_refresh_jobs` rows, advisory locks, audit entries | enqueue, execute, recover, poll, list | threads of several processes, crash in the middle of a check, lock loss |
| Metadata refresh queue | `services.py:37-48, 154-200` | in-memory queue, pending set, two daemon threads | schedule, worker loop | deduplication against a running job, loss on exit |
| Mod tracking | `services.py:51-151, 203-347`, `mod_dependencies.py`, `mod_persistence.py`, `mod_queries.py` | `mods`, `user_mods`, `mod_versions` rows | create, update, refresh one/all, delete, synchronise dependencies | many statements and commits per operation, remote fetch between them |
| Modsets and permissions | `modset_service.py`, `modset_permissions.py`, `routers/modsets.py`, `routers/groups.py` | `mod_sets`, groups, grants, active modset of a user | create, duplicate, rename, delete, activate, order, share | check-then-act guards, stale active modset, overlapping replacements |
| Users and administration | `user_service.py`, `routers/admin.py`, `admin_bootstrap.py` | `users` rows | create, change, reset password, delete | last-administrator guard, session versions |
| Sessions and login | `session_auth.py`, `auth.py`, `login_protection.py`, `routers/auth.py` | signed cookies, `session_version`, in-memory attempts | login, logout, change password, per-request check | revocation, a sliding window without a lock |
| OIDC | `oidc.py` | state cookie, `users` rows | callback, get or create user | concurrent first sign-ins |
| Discord notifications | `discord_webhooks.py`, `routers/admin.py:47-144` | webhooks, their modsets, delivery rows | configure, notify | post and record are not atomic, overlapping updates |
| Scheduler | `scheduler.py`, `services.py:216-263` | `scheduler_runs` rows, module globals | run at 10:00 and 19:00, in every process | overlaps manual work and the runs of other processes |
| Providers, versions | `workshop_provider.py`, `reforger_metadata.py`, `versioning.py`, `scraper.py` | none | fetch, parse, compare | comparison of unlike texts raises |
| Probe service | `reforger-cli/metadata_service.py` | one child process per probe | probe | settle time, deadline, exit and a late file race |
| Migrations, start-up | `migrations.py`, `main.py` | schema | migrate, start and stop threads | exits between adding and filling a column, processes that start together |
| Frontend | `frontend/src/hooks`, `lib`, `components` | React state | poll, load, act | late answers after a switch |

How they interact: routers call services inside one database session per request;
`api_create_mod` and `api_update_user_mod` commit first and then hand the slow
Workshop refresh to the metadata queue; the manual refresh goes through durable
jobs, whose workers call the same `services.refresh_mod`; the scheduler calls
`refresh_all_mods`; `refresh_mod` may notify Discord; every change appends an
audit entry; the frontend polls the jobs of the selected modset. All processes
share only the database and its advisory locks.

What makes each part correct (the properties to state):

- *Refresh jobs*: an attempt is checked at most once and ends exactly once, with
  one audit entry; a check in progress is nobody else's; every attempt ends.
- *Metadata queue*: at most one job per mod and modset is queued or running, and
  a scheduled refresh happens unless the process exits.
- *Tracking*: after a synchronisation every transitive dependency of an installed
  mod is tracked; the dependency origin survives; a required mod is not deleted.
- *Modsets*: one modset always remains, names stay distinct, a user's active modset is
  one they may see; grants and members are what was asked for last.
- *Accounts*: one active administrator always remains; a password or role change
  ends older sessions.
- *Notifications*: one message per webhook, modset, mod and latest version; it is
  sent in the end; a webhook is for the modsets selected last.
- *Start-up*: a process that serves has the whole schema and every old row filled;
  users' choices survive; starts succeed in the end.
- *Probe*: nothing is left of a request; a late file is not missed; it ends.
- *Login window*: a bounded number of failures per window.
- *Frontend*: no late answer puts an older state in place; the tab agrees with the
  server in the end.

## 2. Plan

Most important first. No module anything is proved about declares a `RECURSIVE`
operator.

1. `RefreshJobs` with the abstract `RefreshJobLifecycle` (section 3).
2. `ModTracking`: installs, dependency synchronisation, deletion, refresh
   (section 4). Left: versions and update flags.
3. `MetadataQueue` with the abstract `RefreshSet` (section 5).
4. `Accounts`: users, roles, sessions, the last administrator, bootstrap (section 6).
5. `Notifications`: webhooks, deliveries, the scheduled refresh (section 7). Left:
   the `scheduler_runs` rows.
6. `Modsets` and `GroupAccess`: modsets, the active modset, groups and grants
   (section 8).
7. `Migrations`, `Probe`, `RefreshJobPolling`: three small parts with a run in
   common, and `LoginProtection`, which shares the run of `Accounts` (section 9).
   Left: the other frontend hooks.
8. Left: `compare_versions` against a reference definition over bounded inputs.

Each part has a module of its own, and its proofs have one beside it. `MCServices` puts
three parts side by side that share no state with anything, and `MCAccounts` two. What
composes otherwise is stated by abstraction: `RefreshSet` is what `ModTracking` has of
the queue, `reader` in `Modsets` is what `GroupAccess` has in its tables, and
`RefreshJobPolling` has of `RefreshJobs` how often a row has changed.

Proved: all type invariants, all safety invariants, all action properties, both
refinements (that of `RefreshSet` is proved only, the other one is run, too), and that
`ModTracking` asks no more of the queue than `RefreshSet` says. Liveness under fairness
is TLC's (`AttemptsEnd`, `SyncCallsReturn`, `OperationsEnd`, `Converges`, `JobsEnd`,
`Announced`, `StartsSucceed`, `ProbeEnds`, `TabSettles`): TLAPS reasons neither about
fairness nor about ENABLED. What such a property rests on short of fairness is proved
where it is a claim of its own: that the steps of a refresh, a scheduled run and a probe
run out (`OperationsBounded`, `RunsBounded`, `RequestsBounded`), that no lock of a job
is left behind (`LocksReleased`), and that only requests leave marks in a tab
(`MarksAreOfRequests`).

## 3. Refresh jobs

### Model and code

`RefreshJobs.tla` models one action per database statement group of
`refresh_jobs.py`. A *thread* is a refresh worker of a backend process, a
synchronous request (`POST /mods/{id}/refresh`) or an asynchronous one
(`POST /mods/{id}/refresh-job`).

| TLA+ | Code |
|------|------|
| `job[k]` | the `mod_refresh_jobs` row of a modset and mod: attempt id, state, kind of error |
| `lock[k]` | the session advisory lock `execution_lock` takes |
| `frame[t]` | where a thread is, the key it handles, the attempt it has read, the outcome, the rest of a worker's snapshot |
| `Submit`, `Enqueue`, `Accepted`, `Poll` | the two endpoints and `enqueue_refresh`: the check that the mod is tracked, the conditional `UPDATE`/`INSERT`, the re-read, the waiting loop |
| `Snapshot`, `Returned` | `start_refresh_workers.worker`: list active jobs oldest first, handle each, give the pass up when one raises |
| `TryLock` to `Release` | `execute_refresh`: lock; read the row; recover a running one, drop an untracked one or mark it running; read the attempt; refresh; re-read; end the row and audit; unlock |
| `Crash`, `Restart`, `DbError`, `LoseLock` | process exit (all its sessions and locks go), start, a failing statement or commit, a cut lock connection |
| `Track`, `Untrack`, `EditVersion`, `DeleteModset` | what other requests do to the rows, cascades included |

`unreadable` stands for the mods whose installed version text cannot be compared
with the latest one (`versioning.py:34` raises a `TypeError` when an int meets a
str at the same place); `get_mod_read`, which `refresh_mod` and `_audit_result`
both call, raises for them. So recording the outcome of such a check raises inside
its transaction, the row stays running, and later requests join that attempt for
good, although `docs/manual-refresh-upgrade.md:7` promises a new one. The damage is
not confined to that mod: a worker handles the active rows oldest first and gives
its pass up when one raises (`refresh_jobs.py:163-175`), and the old row raises in
every pass. Rows of other mods that were requested later stay queued, and a
synchronous caller that polls for one waits for ever, since it has no time limit
(`routers/mods.py:156`), while the same line of the document says "Queued jobs resume
after restart". The liveness properties therefore except what is `Behind`: the
attempts of an unreadable mod, and those that an active row of one precedes. TLC
reports both as violated when only the mod's own version is excepted.
`RefreshJobLifecycle.tla` is the promise without locks, threads and polling.
`audits` and `started` record history for the properties.

### Runs

| Run | Instance | Shows |
|-----|----------|-------|
| `refresh_jobs` | 1 modset, 2 mods, 2 workers and 1 synchronous caller in 2 processes, 2 attempts, 1 fault, one editable version | types; `ActiveCheckProtected`, `NoReplay`, `AuditTrail`; the rows implement `RefreshJobLifecycle` (`LifecycleSpec`) |
| `refresh_live` | 2 mods, one with an editable version, 1 worker, 1 synchronous and 1 asynchronous caller in 2 processes, 2 attempts, 1 fault | `AttemptsEnd`, `SyncCallsReturn`: every attempt ends, every waiting request is answered, unless it is behind a row whose version does not compare |
| `refresh_lossy` | 1 mod, `LoseLock` enabled | *violated*: `TerminalIsFinal` |

Bounds: `MaxAttempts` caps the requests that draw an attempt id, `MaxFaults` the
crashes, database errors and lost locks. Two attempts are what it takes to have
one key reopened after an end, or two keys in one worker's snapshot; two workers
and a caller cover a check, its recovery and a request in flight at once; one
fault suffices for a recovery. `refresh_live` needs two mods, an old row and one
behind it; to keep it small, the second mod is untracked with its modset only
(`LiveNext`; users owe nothing, so this only leaves behaviours out). The theorems
below do not depend on these bounds.

Deadlock is not checked: the system really may stop, once every modset is deleted
and the bounds on attempts and faults are used up.

Fairness (`FairSpec`): each thread that can step eventually steps (operating
system threads run; a database call returns or raises), and a stopped process is
started again, as `docs/manual-refresh-upgrade.md:7` presumes ("Queued jobs resume
after restart"). Users and faults owe nothing. Weak
fairness of a thread does not say that an outcome is a success.

### Finding

`refresh_lossy`: `docs/architecture.md:18` promises that locks prevent recovery
of a still-active check. The executor does not notice that the connection that
holds its lock was cut. A worker then declares the attempt failed, and the
check, still running, writes its own outcome over it: two audit entries.

### Proofs

`RefreshJobs_proofs.tla`, for all values of the constants that satisfy
`ConstantsOK` (finite sets of modsets and mods, at least one key, distinct kinds
of threads). `TypeCorrect` and `LossyTypeCorrect` are the type invariant. The
safety properties are not inductive as they stand; the argument is a chain:

1. `LockInv`: a thread inside `execute_refresh` holds the lock of its key. It
   needs that keys do not change inside, and that a crash clears both sides.
2. `RowInv`: what a thread inside has read of its row (state and attempt) is
   still so, or the modset is gone. Other threads inside would need the same
   lock; a request only writes a row that is not active.
3. `AttemptInv`: ids are used once, and a request in flight holds a fresh one.
4. `HistoryInv`: a queued attempt has neither a start nor an audit entry, a
   running one no audit entry, a finished one exactly its result.

`RowsCorrect` is 1 to 3 and gives `ChecksProtected` and `ChecksExclusive` (two
threads never execute a check of the same key, `ExclusiveExecution`, which is proved
only); `Correct` adds 4 and gives `NothingReplayed` and `EndsAudited`.

`ImplementsLifecycle` is the refinement `LifecycleSpec`. An attempt counts as
`checking` while a thread between `Mark` and `Commit` has read it, as `opened` once
drawn, unless its request is about to write it. It needs `SeenInv` besides 1 to 3:
the attempt a thread has read belongs to its key even when the row is gone, so that
a check left over from a deleted modset is never taken for that of another row
(`OneCheck`). Steps that leave rows and audit entries alone are `Abandon`.

`LocksReleased` holds under `LossySpec`, too: the holder of a lock is inside
`execute_refresh` on that key, in a process that runs, so that the `finally` clause is
still to come; a job never waits for a lock nobody will release. It needs that an idle
thread holds nothing (`HeldInv`) and a stopped process has no thread at work
(`AliveInv`), and not that whoever is inside has the lock.

Only model-checked: liveness (`AttemptsEnd`, `SyncCallsReturn`) and the violation.
`LockInv` is false under `LossySpec`, which is what the finding is about.

## 4. Mod tracking

### Model and code

`ModTracking.tla` follows one modset through `services.py` and
`mod_dependencies.py`. Modsets share the `mods` table, and they share the scheduled
refresh: `refresh_mod_for_all_modsets` goes through all modsets of a mod in one loop
and one `try` (`services.py:255-263`), so that whatever raises for one of them skips
those that come later. What the other modsets do is `OtherModset`; one that raises
before this one's turn ends the scheduled refresh of the mod (`OthersRaise`). It
does so by a conflict, which may happen once, or because its installed version does
not compare with the latest one (`spoiled`), which happens in every run until
somebody changes the version. A *session* is an API request, a worker of
the metadata queue or the scheduled refresh.

| TLA+ | Code |
|------|------|
| `known`, `deps`, `versioned` | the `mods` table: rows, stored direct dependencies, whether a latest version is known |
| `tracked`, `installed`, `origin` | the `user_mods` rows of the modset, those with an installed version, those with `dependency_origin` |
| `scheduled` | what the metadata queue holds or a worker is busy with |
| `spoiled` | mods that another modset has in a version `compare_versions` cannot compare |
| `frame[t]` | where a session is, and every result it has read and will still use |
| `Create`, `Update`, `Edit`, `Delete`, `Refresh`, `RefreshAll` | the endpoints up to their first commit; `Edit` is an update of any field but the version |
| `Take`, `Schedule` | a queue worker takes a mod; the scheduler starts `refresh_all_mods` |
| `Remove`, `FindOrphans`, `ClearOrphans` | the tail of a deletion, and of an update that uninstalls |
| `Fetch`, `FetchFails`, `Upsert` | `fetch_and_upsert_mods` and `refresh_dependency_mods`: the page is read, later stored |
| `Tracked` | `get_user_mod` after a refresh or update |
| `Plan`, `Commit` | `synchronize_dependency_tracking_for_modset_state`: one reading of the tables, one commit of what is missing |
| `OthersRaise` | the turn of an earlier modset raises in a scheduled refresh |
| `OtherModset` | another modset stores a page, adds a mod, or gets or loses an odd version |
| `Publish`, `Crash` | a release on the Workshop; the backend process exits |

A conflict of two transactions (two inserts of the same row, or the update of a
deleted row) surfaces at `Commit`, as a constraint error or a stale row: the
operation raises, and the session cannot be used again.

### Runs

| Run | Instance | Shows |
|-----|----------|-------|
| `tracking` | three mods in a chain or a short cut, 2 requests at once, 1 queue worker | types; `QuietClosed`: at rest, every transitive dependency of an installed mod is tracked as one; towards the queue the operations behave as `RefreshSet` says (`QueueSpec`) |
| `tracking_live` | 2 mods, 1 request, 1 queue worker, the scheduled refresh, 1 release, 1 failure | `OperationsEnd`; `Converges`: scheduled refreshes repair what was cut short, unless other modsets raise for all tracked mods |

Bounds: a chain of three tells direct from transitive dependencies. Two requests
and a worker are the smallest case in which one session plans while two others
write. `MaxRounds` is 20 in the code; a refresh that comes to the last round gives
up, which the small bound makes happen. `cut` records what `QuietClosed` excepts:
an operation that raised, lost its process or gave up, a scheduled refresh that
passed this modset over, and a change by another modset, which this modset is not
told of before its next refresh. Both runs start with no odd version elsewhere
(`SafeSpec`, `LiveSpec`); in `tracking_live` one may appear at any time.

`Converges` says that what `cut` excepts is repaired: at last the stored dependencies
of the tracked mods are those published, and all that are required are tracked. Its
exception is as narrow as the code allows: one tracked mod that no other modset
spoils is enough, as its synchronisation covers the whole modset. A job of the queue
that is dropped because the mod is being refreshed already needs two requests and
does not occur in `tracking_live`; it does in `tracking`, and `QuietClosed` holds across it.

Deadlock is not checked: once the requests are used up the system rests.

Fairness: every session that can step eventually does, and the scheduled refresh
comes round again (`scheduler.py:26-43`, a cron job). Users, the Workshop and
failures owe nothing.

The guard of a deletion (`services.py:279`) is evaluated on what one session has
read; another session may install a mod that needs the deleted one before the row
goes. The deletion's own synchronisation adds the row again, but without its
installed version. No property forbids it, since no text promises more.

### Proofs

`ModTracking_proofs.tla`, for all constants that satisfy `TrackingOK`.
`TypeCorrect` is the type invariant, strengthened by what plans must satisfy
(`PlansFit`): a planned row of the modset has its row of the mods table planned or
there already, and rounds stay below `MaxRounds` outside a fetch. `QuietCorrect`
is `QuietClosed`, by an argument about debts: a session *owes* while it will still
synchronise, or has planned all that is required (`Owes`). Every step that makes a
dependency of an installed mod untracked leaves its own session owing
(`DebtInv`): an update hands its debt to whoever removes its mod, a commit pays
it, and an operation cut short is recorded in `cut`. `QuietClosed` is the special
case in which nobody can owe.

`UsesRefreshSet` is the second half of the composition with the queue: `MetadataQueue`
implements `RefreshSet` (section 5), and with `scheduled` and the mods of its workers at
work `ModTracking` does nothing that `RefreshSet` forbids, so that what it presumes of
the queue is what the queue does. It needs `WorkerInv`: a worker at work refreshes a
mod that is scheduled, for itself alone, and goes on to no other.

`OperationsBounded` is the half of `OperationsEnd` that needs no fairness. The measure
`StepsLeft` counts the mods a full refresh has not come to, the rounds left for this
one, and what is left of the round, for which the mods still to fetch count twice;
every step of a session takes something off its own and nothing adds to it, not even
releases that reveal new mods in every round. It needs that the page a session is
about to store is one of those it wanted (`ReadInv`). That the steps are taken, as
fairness has it, and the rest of `OperationsEnd` and `Converges` stay with TLC.

## 5. Metadata queue

### Model and code

| TLA+ | Code |
|------|------|
| `started`, `pending`, `queue` | the module globals of `services.py:45-48` |
| `caller[c]` | a call of `schedule_mod_metadata_refresh` between its lock and its put |
| `worker[w]` | a daemon thread and its job |
| `Upper` | `strip().upper()`: how requests spell an id and how the queue does |
| `Schedule`, `Put` | `schedule_mod_metadata_refresh` under the lock and after it; the first call starts the threads |
| `Get`, `Refreshed`, `Escapes`, `Discard` | `_metadata_refresh_worker`: take a job, end its refresh, discard it; an exception out of the `finally` or `except` of `refresh_mod_background` ends the thread |
| `Exit` | the process exits; all of this is memory |

Today the event loop is the only caller; the code's lock allows any number, and so does
the model. `RefreshSet.tla` says what users of the queue may rely on, and is what
`ModTracking` has as `scheduled`, `Take` and `Ends`, as its `QueueSpec` states. One
thing `ModTracking` leaves out: it has ids in one spelling only, while a mod stored in
lower case is not found again by a job of the queue.

### Runs, fairness and proofs

`metadata_queue` has one mod in two spellings and another one in two modsets (four
jobs), two callers and the two workers of the code, and two faults: enough to end
both threads, to lose one and exit, or to exit twice. It checks `Deduplicated` and
`JobsEnd`; the types and the refinement of `RefreshSet` (`SetSpec`), which mostly
follows from `Deduplicated`, are proved below and not checked again by TLC. Fairness:
threads run and a refresh ends, since its requests have time limits; nobody has to
ask. `JobsEnd` excepts the case that both workers have ended, which the code never
repairs.

`MetadataQueue_proofs.tla` proves the types, `Deduplicated` (inductive with the
types and `StartInv`: no worker runs before the first call, so that starting them
overwrites nobody) and the refinement (`ImplementsRefreshSet`), for all constants
that satisfy `QueueOK`. `JobsEnd` is only model-checked.

## 6. Accounts

### Model and code

| TLA+ | Code |
|------|------|
| `row[u]` | a row of `users`: role, status, `session_version`, whether it has a local password, the OIDC identity, the name of the configured administrator |
| `req[r]` | a request thread: its operation, how far it is, what it has loaded (`seen`) |
| `issued`, `revoked` | the versions in the sessions of an account, before and after a change that ought to end them |
| `Verify`, `Login` | `authenticate_user` up to the verified password; commit, refresh and token. The sign-in of a known OIDC subject has the same two halves |
| `FindNoSubject`, `SignUp` | `_get_or_create_oidc_user` for an unknown subject |
| `Admit`, `Load`, `Count` | `require_admin_user`, the load of the target with the checks that need no query, and the count of active administrators |
| `CommitUpdate`, `CommitPassword`, `CommitDelete` | the commits of the three changing endpoints; `CommitPassword` is also `api_change_password` |
| `Rehome` | `ensure_user_active_modset` may refresh the loaded row |
| `Abort` | every way a request ends without effect |
| `Restart`, `Bootstrap` | the process ends with its requests and `bootstrap_admin` runs; the first start is one, too. With no administrator there, it makes the configured one, fails when another account has the name, and without configured credentials fails in production and goes on without an administrator otherwise (`admin_bootstrap.py:16-19`) |
| `founded` | a start has made an administrator |

The ORM is part of the model: a session keeps the rows it has loaded until it
commits, so the actor's own row is the one the session check loaded (`Load`); a
commit writes the columns whose value differs from the loaded one (`Written`), and
the incremented `session_version` is the loaded one plus one. `CommitUpdate` needs
the actor to exist still, since its audit entry is in the same transaction.
Ids are not reused, as PostgreSQL's sequences guarantee.

### What is promised and what is not

`README.md:56` and `admin.py:428` promise without conditions that changes end
sessions and that an administrator remains. The code keeps both only as long as
changes do not overlap, and the properties say exactly which overlap matters:

- `SessionsRevoked` excepts accounts in `stomped`, whose version was once computed
  from a version that another commit had replaced meanwhile. Two such commits store
  the same version, so that a login between them survives the second.
- `AdminRemains`: once a start has made an administrator, there is an active one
  for ever and every start succeeds. Before that there need not be any: an
  application without configured credentials serves without one. It excepts
  histories where the removal of an active administrator was committed by a request
  that another removal had crossed (`contested`), which is what the guard, a count
  before the commit, really leaves open. Crossing by anything else is harmless: an
  administrator who removes another remains, and the property checks it.

### Runs and proofs

`accounts` runs accounts or failed logins (section 9). The accounts start from the empty
table, with two of them, two requests at a time, versions up to 1 (two commits from the
same version fit below it) and four kinds of update: demote, promote, disable with a new
password, enable. Two accounts are enough for a first administrator, a second one and
both removals; the third creation has the configured name, so that a start can fail. The
settings may change between starts.

`Accounts_proofs.tla` proves the types, `SessionsRevoked` and `AdminRemains` for
all constants that satisfy `AccountsOK`. `TypeOK` is inductive with `Targets` (a
request past its loading has a target). `SessionsRevoked` follows from `Versions`:
unrevoked sessions lie at most at the stored version, revoked ones below it.
`AdminRemains` is inductive with `Grounded`, what a request nobody has crossed may
rely on: its loaded role and status are the stored ones, and after a count there is
another administrator than its target; and `Running`: only a started application
serves requests. An actor whom no removal has crossed is an active administrator
still, so that whoever else is removed, the actor remains (`Crossed`, `Commits`).

## 7. Notifications and the scheduled refresh

### Model and code

`Notifications.tla` has one scheduler for each backend process: every process
starts its own, so two processes refresh at 10:00 and at 19:00 side by side. A run
awaits the Workshop and Discord between its database statements, and each await
is where others come in. Only this run sends alerts: all callers of `refresh_mod`
and `update_user_mod` leave `send_update_notifications` false.

| TLA+ | Code |
|------|------|
| `hook` | rows of `discord_webhooks` (absent, live, deleted; active or not) with their `discord_webhook_modsets` |
| `track` | rows of `user_mods` as `compare_versions` tells them: untracked, no version, current, outdated, or "odd" when it raises |
| `latest`, `deliveries` | `mods.latest_version` and the rows of `discord_webhook_deliveries` |
| `run[p]` | the job of a process: the mods and modsets left, the webhooks it has listed and their modsets, the version it has loaded, where it is |
| `edit[e]` | an `update_webhook` between its load and its commit |
| `Start`, `TakeMod`, `Finish` | `_refresh_job` and the loop of `refresh_all_mods` |
| `Fetch`, `FetchFails` | `fetch_and_upsert_mods`, the commit and the listing of the modsets; whatever version was scraped is stored (`Upsert`), an older one, too, since Workshop pages lag (`README.md:175`), and what was outdated may be current again (`Compared`) |
| `Consider`, `LastModset` | one turn of the loop of `refresh_mod_for_all_modsets` up to the first await, and its end |
| `Target`, `LastWebhook` | one turn of the loop of `notify_update_available` up to the post, and its end |
| `Deliver`, `Refused`, `TimedOut` | `_post_discord_webhook`: Discord has the alert; it was refused; its answer did not come in time |
| `Record`, `RecordFails`, `RecordLost` | the delivery row: stored; refused by a key; lost with the database |
| `DbError`, `Crash`, `Restart` | any other failing statement; the process ends and starts |
| `CreateWebhook`, `DeleteWebhook`, `LoadWebhook`, `CommitWebhook`, `FailWebhook` | the three endpoints that change webhooks |
| `DeleteModset`, `Track`, `RefreshElsewhere` | what other requests do to the tables this part reads, cascades included |

The ORM is part of the model here, too. `webhook.modsets = ...` writes the
*difference* between the selection and what was loaded (`Unlinked`, `Linked`). A
commit expires what the session has loaded: after the first recorded delivery the
modsets of a webhook are read again (`fresh`), a deleted webhook raises and ends
the mod, and the latest version is read again; without a commit, a later modset is
compared with the version an earlier one has loaded (`version`). `received`,
`repeated`, `excused`, `chosen` and `mixed` record history for the properties.

### What is promised and what is not

- `SentOnce`: `README.md:65` says that alerts are deduplicated per webhook, modset,
  mod and latest version. The post precedes the row, so a repetition is possible
  after an exit, a late answer or a database error in between, or when two runs
  send the alert at once (`excused`); when webhook or modset are deleted the rows
  go as well. The property says that these are all the reasons. In particular,
  other requests can never cause one.
- `DeliveriesReceived`: no row without an alert, or the alert would never be sent.
- `ScopeChosen`: the modsets of a webhook are those selected last, except when
  updates overlap, whose differences mix (`mixed`).
- `Announced`: an update that stays available for an active webhook is announced in
  the end, whatever failed before, provided no modset tracks the mod in an odd
  version: `get_mod_read` raises for that modset, and the ones after it are skipped.

### Runs

| Run | Instance | Shows |
|-----|----------|-------|
| `notifications` | 2 processes, 2 administrators, 1 webhook, 1 modset, 1 mod, 3 changes, 1 fault | types, `DeliveriesReceived`, `SentOnce`, `ScopeChosen` |
| `notifications_live` | 1 process, 2 modsets, 2 versions, 1 change, 2 faults | `Announced`; the stale version and the skipped modset occur |

Bounds: two processes are what it takes to send one alert twice, two
administrators to mix selections, and one fault to lose a record. Three changes
(`MaxEdits`) leave room for two overlapping updates and a deletion. A second
version and a second modset matter for what a run has loaded and for which modset
comes last, which the second run has. The payloads of updates (`FourChanges`) are
a selection of all, a selection of none, and the webhook turned off and on. The
theorems do not depend on any of this.

Fairness (`FairSpec`): the scheduler fires and its thread runs; a fetch and a post
end, as both have time limits. That a mod's page can be fetched, and that Discord
accepts an alert, is assumed in the weakest useful form: strong fairness, for each
mod and each webhook, so that what is tried again and again succeeds once. Nobody
can promise an announcement without that. Administrators and faults owe nothing.

### Proofs

`Notifications_proofs.tla`, for all constants that satisfy `NotificationsOK`.
`TypeOK` is inductive with `Frames`: a run that is about to post, or has posted,
knows its mod, its modset, its version and its webhook. `DeliveriesAreReal` and
`AlertsSentOnce` follow from `OnceInv`: an alert Discord has got is recorded, or
held by a run that has posted it, or spent, which is one of the reasons in
`SentOnce` (`Accounted`); a run that is about to post something Discord already
has is excused (`Unsent`); two runs with the same alert in hand are (`Apart`).
`Known` (listed webhooks have existed) keeps a new webhook from inheriting
anything. `ScopeCorrect` is inductive with `SeenScope`: an update no other
selection has crossed still knows the modsets of its webhook, but for deleted ones.

`RunsBounded` says that a scheduled run is over after boundedly many steps, whatever
other processes, administrators, the Workshop and Discord do: a run takes up every mod
it has listed once, every modset of the mod once and every webhook once for each, and
tries none again before the next run (`StepsLeft`; `TablesFinite` is its hypothesis).
A fault shortens a run and never prolongs one. That an alert is sent in the end
(`Announced`) is only model-checked.

## 8. Modsets, groups and permissions

### Model and code

`Modsets.tla` has the requests of `modset_service.py`. The reads a request makes one
after the other are one action, each commit is another; others commit in between.

| TLA+ | Code |
|------|------|
| `modset[s]` | rows of `modsets`: name and owner |
| `active[u]` | `users.active_modset_id`, with its foreign key (`References`) |
| `reader[s]` | the users whom groups let see a modset |
| `CheckCreate`, `Insert` | `create_modset`, and `duplicate_modset` but for the mods it copies |
| `CheckRename`, `Rename` | `update_modset`: the name is compared without case (`Taken`), the table keeps exact texts unique (`Store`) |
| `Lower`, `Fold` | the two sides of that comparison: SQL `lower(name)` of the stored name, and Python `name.casefold()` of the new one (`modset_service.py:88, 139`) |
| `CheckDelete`, `Delete`, `NextUser` | `delete_modset`: the count and who has it active; the commit; then `ensure_user_active_modset` for each of them and for the caller |
| `Home`, `Resolve`, `Fallback`, `Rehome` | `ensure_user_active_modset`: keep what is visible, or take another and commit it |
| `CheckActivate`, `Activate` | `activate_modset`; a choice equal to the one loaded is not written |
| `ChangeAccess` | a change of groups, members or grants |

`GroupAccess.tla` has the tables behind `reader`: `Share` and `CommitShare` are
`set_modset_group_permissions`, `AssignGroups` is `update_user_groups`, `SaveGroup`
and `Flush` are `save_group`, `CommitMembers` is the commit of both, `DeleteGroup`
takes members and grants with it. A DELETE removes the rows committed when it
starts (`removed`), so that a row inserted since stays and may conflict.

### What is promised and what is not

All guards are check-then-act without a lock, so the properties name the overlap
they except:

- `ModsetRemains` (`README.md:39`) excepts `contested`, a deletion that committed
  after another one had crossed it: two deletions can leave no modset.
- `NamesDistinct` excepts `clashed`, modsets named by a request another one with the
  same name in other case had crossed. A later renaming ends the exception. It is
  about names the two forms agree on (`Folds`). For others the check fails without
  any overlap: `casefold` spells a sharp s as ss, which `lower` keeps, so that two
  spellings that differ in case only are both accepted, one after the other; and a
  name may be refused that nobody has in any case. The run has such names beside
  ordinary ones.
- `ActiveVisible` is about users in `settled`: after a request that settles the
  active modset of a user, they have one they see, until what they see changes or
  an overlapping request stores another.
- `ChoiceKept`: nobody loses a visible active modset but by choosing, by its
  deletion, or to a request that goes by what it has read before a change (this
  includes a deletion that clears what it has read, in `todo`).
- `AsChosen`: members and grants are what was asked for last in each scope; a
  request others have crossed leaves a mixture, and `chosen` follows it there.
- `OnlyManagersShare`: only a request of an administrator or the owner lets anybody
  reach or write a modset. The check of the actor is not repeated at the commit.

### Runs, bounds and proofs

`modsets` has two users, one of them an administrator, two modsets over time, two
requests at once and two spellings of a name: enough for two deletions, for a
deletion and an activation, and for a creation beside a renaming. There are two such
pairs of names, one with a sharp s, of which a behaviour uses one at a time
(`OneText`). `groups` has
three users, two groups, one modset and two requests, with grants of both kinds.

`Modsets_proofs.tla` proves the types (`TypeCorrect`) and, from one inductive
invariant, `LastModsetKept`, `NamesStayDistinct` and `ActiveStaysVisible`; it says
that what an uncrossed request has read is still so. `ChoiceStays` is the action
property. `GroupAccess_proofs.tla` proves `TypeCorrect`, `StoredAsChosen` (inductive
with what an uncrossed request has loaded and will remove) and `OnlyManagersGive`.
Nothing is promised to come about in either, so neither has fairness.

## 9. Start, probe, failed logins and a browser tab

`MCServices` puts three parts side by side that share nothing; each behaviour runs one
of them (`part`), and the run `services` checks all three. `MCAccounts` does the same
with accounts and failed logins, in the run `accounts`. The types of these four are
proved below and not checked again by TLC.

### Migrations

`Migrations.tla` reads `migrate_schema` as a list of steps (`MigrateSchema`), each a
reading of the schema or a transaction, which every process goes through before it
serves. `Read` remembers the columns a table lacks, `Add` and `Fill` go by that,
`Always` repairs at every start, `Ensure` is a ledger entry under the advisory lock,
`Conflict` an ALTER TABLE that fails since another process was first, `Stop` an exit
or a failing statement, `Choose` what users do with a process that serves already.

- `OldRowsFilled`: who serves has the whole schema and no old row is behind, except in
  `torn` columns: a process stopped between adding a column and filling it, and the
  next start finds the column and fills nothing. The owners of modsets are such a
  column, too, when there was no user yet to own them (`Ownerless`,
  `migrations.py:351-352`). (It also excepts rows another process is about to fill.)
- `ChoicesRetained`: no start replaces what users have chosen ("Existing scopes are
  authoritative", `migrations.py:200`), except for the scopes of webhooks when the
  process had not found their table before another one created it.
- `StartsSucceed` ("retried on the next start", `docs/group-sharing-upgrade.md:59`).

Bounds: two processes, one exit, the schema of the first or of this version, and
users or none (`users`).
Fairness: processes run, and are started again (`restart: unless-stopped`).

### Probe

`Probe.tla` is `do_POST` with `_probe_metadata_for_one`, mod by mod. `Look`, `Sight`,
`Poll`, `Reread` and `Sleep` are the turn of its loop, between any two of which the
game server may write (`Write`: half a file or a whole one) or exit (`Exit`);
`Expire` is the deadline, `Terminate`, `Wait`, `Killed` and `Clean` the way out.

- `ProbeCleaned`: no server outlives the request, but one that survives SIGKILL
  (`stuck`) or that runs while the walk through its profile raises (`LookFails`): the
  walk is outside the inner `try` (`metadata_service.py:133`), and the `finally`
  clause removes the directory and leaves the server alone. No directory outlives the
  request either, but those kept by `KEEP_WORKDIR` (line 111, "unless debug retention
  is enabled", `README.md:191`), one whose profile directory could not be made, which
  happens before the `try` (lines 42-44), and one whose removal failed, as errors are
  ignored (line 112). `faults` has which of these befell the request.
- `LateFileTaken`: a file written just before the exit is not reported as missing.
- `ProbeEnds`: a request is answered, whatever the server does.

Bounds: two ids, a deadline of four polls and a settle time of two, so that either may
come first. What a request has left behind is never looked at again, so that requests
need not be told apart. Fairness: the thread of the request goes on. `README.md:187`
says that the file must be "available and stable", while the code only waits since the
file was first seen; a file that still changes is taken. On SIGTERM the service's
handler calls `server.shutdown()` in the thread that serves (`metadata_service.py:280`),
which waits for itself until SIGKILL; the model has no such exit.

### Failed logins

`LoginProtection.tla` has one key of `_failed_logins`: a list of ages, which `Check`
reads, `Store` replaces, and `Record` appends to where `Fetch` has found it. Logins
run in the threads of a pool, any number of them, without a lock. So the limit of
`README.md:54`, 8 failures in 60 s, is not kept while logins overlap: several pass the
check together; `Store` puts back a list that was read before others failed; and a
failure appended to a list that was replaced is lost. What holds in spite of this, and
what the model counts by itself (`failed`, `apart`) and not by the code's list:

- `FailuresBounded`: of the logins that overlap no other, no more fail within the
  window, after the last successful one, than the limit. Failures of the others may be
  lost, but theirs never are: a list put back has them all.
- `RefusalsEarned`: nobody is refused unless as many logins as the limit really failed
  within the window. A list that comes back never counts a failure twice.

Bounds: three logins at a time, a limit and a window of two, four failures within a
window; both proofs are for any number of logins, any limit and any window.

### A browser tab

`RefreshJobPolling.tla` is `useRefreshJobs.ts` against a server with one row for each
modset, of which it has the number of changes (`jobs`).

| TLA+ | Code |
|------|------|
| `snapshot`, `pending`, `mutations` | the hook's state and `mutationVersion` |
| `poll[p]`, its `live` | a call of `poll`; false once its effect was disposed |
| `request[r]` | a call of `refreshMod` |
| `Ask`, `TakeJobs`, `PollFails` | `poll` before and after its await; `Current` is its early return |
| `RefreshMod`, `Answered`, `RequestFails` | `refreshMod` before and after its await, `Unmarks` its `finally` |
| `Select` | another modset is selected: the effect's clean-up |
| `List`, `Accept`, `CheckEnds`, `Elsewhere` | the server, and other tabs |

- `PollNeverOlder`: an answer to a poll never replaces a later state of the same
  modset. (The answers to two requests may, until the next poll.)
- `Settles`, as `TabSettles`: in the end the tab shows what the server has, and no mod
  is marked as being checked, except in `strayed` modsets: a request that ended while
  another modset was selected leaves its mark (`useRefreshJobs.ts:66,71`), so that the
  button stays disabled on return, against `docs/user-guide.md:26`.

Bounds: two modsets, two polls (one of an earlier selection), one request and one of
another tab, two switches (away and back), one loss. Fairness: the timer fires,
polls and requests that are not lost are answered, checks end.

### Proofs

`Services_proofs.tla`: the types of all four (`MigrationsTypeCorrect`,
`ProbeTypeCorrect`, `LoginTypeCorrect`, `PollingTypeCorrect`). `RowsKept` and
`ChoicesStay` hold for any plan that reads before it adds and adds before it fills
(`MigrationsOK`), which TLC checks of the code's plan: what a process owes it
has added, and it has found missing what it fills. `NothingLeft` and `FileFound` say
at each step of a probe what exists: where a server may run (`ServerKnown`), and that
there is one directory for the id at hand and more only if something spared them
(`DirsKnown`). `PollsStayFresh` rests on `TakenFresh`: an
answer that will be taken is not behind what is shown, since a poll is asked after
the last request ended or is dropped. `MarksAreOfRequests` says that no mark in the
tab is left to nobody: its modset has a request in flight, or is one of the `strayed`.

`FailuresAreBounded` and `RefusalsAreEarned` come from one invariant. `LoginLists`
relates lists by inclusion, age by age (`Within`): what failed apart is in the
dictionary and in every list a login is about to store, and all of these are within
what failed. `LoginAlone` says that a login that overlaps no other is alone, that no
list was replaced under it, and that once it has passed the check there is room for
its failure. Time passes for all lists alike (`WithinSteps`), and the lengths compare
as the lists do (`WithinFewer`).

`RequestsBounded` is the half of `ProbeEnds` that needs no fairness: `StepsLeft` counts
the ids left and, for the one at hand, the polls until the deadline and the way out;
each step of the request takes something off, and the game server adds nothing. The
three liveness properties are only model-checked.

## 10. Not modelled, and why

- The SQLite branches of `execution_lock` and of the migrations serve the tests.
- What a refresh does to mod data is abstracted to succeeded or failed in
  `RefreshJobs`; `ModTracking` has the inside.
- Versions, their history and update flags, the load order and the mods a duplicate
  copies are data the models leave out. `compare_versions` and the scraper are pure.
- The `scheduler_runs` rows and the status shown of them.
- The other frontend hooks load once per selection or hold what a view shows; views,
  HTTP, child process I/O, layout and container files have no behaviour of their own
  that the properties tell apart.
- Token signatures and expiry, the OIDC exchange, password hashing and webhook
  encryption stay abstract. Logout clears the client's cookie only.
