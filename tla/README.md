# A TLA+ model of World of Seeds

World of Seeds (WOS) is a shared seedbox manager. Users ask for torrents; WOS
keeps one physical copy per infohash, lets qBittorrent download it, serves the
content to everyone who holds a right on it, and deletes it when nobody does.
This directory models what the program decides concurrently: the durable job
queue, the life of a torrent and the scheduler, and around them storage,
uploads and downloads, accounts, options, events, reconciliation, the Discord
bot, the import of the first version and the backups. Paths below are relative
to `src/backend/app` unless they start with `src/`.

## 1. The system

| Part | State it keeps | Operations | Interacts with |
| --- | --- | --- | --- |
| Job queue (`jobs/torrent_jobs.py`, `jobs/worker.py`, `maintenance.py`) | rows of `torrent_jobs`: state, attempt, claim, deadlines, cancellation | enqueue, claim, renew, finish, retry, wait, cancel, recover, prune | every part enqueues; the worker executes |
| Torrent life (`torrents/deduplication.py`, `torrents/lifecycle.py`, `api/routes/torrents_v2.py`) | `ManagedTorrent`, `TorrentRequest`, `DownloadLease`, storage counters | request, join, cancel, expire, retry, lease | enqueues jobs; the scheduler reads its rows |
| Handlers (`jobs/torrent_effects.py`) | nothing of their own | add, observe, purge, recover: transactions around HTTP calls and file deletion | qBittorrent, disk, the rows above |
| Scheduler (`scheduler/*.py`) | singleton lease, `desired_active`, stop markers, deficits, cursor, measurement window | decide, select, stop, control, acknowledge, scale | qBittorrent; purges wait for its acknowledgement |
| qBittorrent gateway and routing (`integrations/qbittorrent_v2.py`, `account_routing.py`) | a session per account, the account of a torrent | add, look up, stop, start, remove | HTTP, with lost and ambiguous answers |
| Storage (`storage/*.py`) | `StorageLedger`, `UserStorageUsage`, the directories | admit, refund, reconcile, delete | called inside the transactions |
| Uploads (`torrents/upload_staging.py`, `validation_work.py`, `retry_reads.py`) | a pool of threads, staged files, the row lock | validate, stage, settle, retry | the add job takes the file |
| Torrent files (`torrents/metainfo.py`) | none | parse, rewrite, check paths | uploads and the add job |
| Downloads (`torrents/downloads.py`, `torrents/traffic.py`, `http_downloads.py`) | leases, archive queue, lanes, rate clocks | acquire, renew, release, stream, drain | leases block purges |
| Accounts (`auth/*.py`, `users/*.py`, `api/external/*.py`) | accounts, sessions, throttles, reset links, idempotency keys, budgets | log in, change, reset, provision, limit | every route |
| Options (`options/*.py`, `integrations/newgreedy_*.py`) | rows with versions and audit, two files, a restart channel | bootstrap, edit, rename, restart | read by every service |
| Events (`coordination/*.py`, the socket route, `src/frontend/src/App.tsx`) | subscriptions, socket slots, what a page shows | publish, forward, check, poll | Redis, all of it may be lost |
| Reconciliation and recovery (`admin/reconciliation.py`, `integrations/observability_v2.py`, `api/routes/admin_v2.py`) | inventories, recovery jobs | publish, page, recover | qBittorrent, disk, rights |
| Discord bot (`src/discord-bot/`) | a cursor, claimed alerts, the panel's message | scan, alert, serve buttons | external API |
| V1 import (`v1_import.py`) | a mapping of imported rows | apply, roll back | rights |
| Backups (`src/scripts/rise2_v2_*backup.py`) | dumps, archives, manifests, status | dump, verify, publish, rotate, restore | PostgreSQL, disk |

PostgreSQL is the authority. A transaction locks the rows it changes, so what is
hard is what happens *between* transactions: a worker holds a claim while it
talks to qBittorrent, loses it, and goes on; the scheduler decides in one
transaction, applies the decision in several HTTP calls and acknowledges in
another; a password is hashed for seconds between reading an account and writing
it; processes crash at any point; a torrent is purged and requested again while
a job of its previous life is still in flight. `PROJECT.json` lists the forty
hazards that matter most, each with the line at which it bites and the property
that covers it.

## 2. The modules

Three views are shared by all specifications. *A database transaction is one
step* where the rows it locks are few (where the order of the locks is the
question, as in `StorageAdmission` and `OptionRegistry`, each lock is a step).
*An HTTP call, a file operation or a hash is a step of its own.* *Time is a
countdown* in ticks, so clocks are unbounded and the state space finite.

| Module | Models |
| --- | --- |
| `JobQueue` | all rows of the queue and the executions of all worker processes |
| `JobPromise` | what the queue promises of one job, without rows, claims or clocks; `JobQueue` implements it |
| `TorrentLifecycle` | one infohash through all its lives, with its jobs and qBittorrent |
| `SchedulerCycle` | the schedulers, the torrents as they see them, and qBittorrent |
| `FairSelection` | the scan window, the ring of users, continuity and the deficit round robin of `weighted_fair.py`, cycle after cycle |
| `DynamicLimit` | the measurement window, freeze and reset of `dynamic_concurrency.py` |
| `StorageAdmission` | every transaction that locks users, usages, torrents or the ledger, lock by lock |
| `StorageCapacity` | the arithmetic of capacity and pressure (`storage/accounting.py`), over all inputs in the bounds |
| `Manifest` | the rows of a torrent's files: who writes and deletes them, the listings a browser keeps and the downloads it makes from them |
| `ContentStore` | the bounded removal of a directory tree that changes meanwhile (`storage/shared.py`) |
| `UploadStaging` | pool, staged file and row lock of an upload, with clients that leave and commits of unknown outcome |
| `Metainfo`, `TorrentPaths` | the bencode grammar and the rewriting of trackers; collisions of paths |
| `Downloads` | leases, heartbeats, limits, the FIFO of archives, clean-up, drain |
| `DownloadTraffic` | byte ranges, lanes with promotion, and rate clocks |
| `Gateway` | one account's session shared by several operations, ambiguous answers |
| `AccountRouting` | the tracker account of a torrent while slots and deployments change |
| `Accounts`, `Provisioning` | one account with its sessions, throttle and links; idempotent creation and the password pool |
| `LoginLimits`, `ApiLimits` | the two in-memory limiters, with full tables |
| `OptionRegistry`, `OptionFiles` | options in the database; `.options` and NewGreedy's configuration on disk |
| `RestartChannel` | request and status files between the application and the root helper |
| `Realtime` | events, sockets and the page that follows them |
| `Reconciliation`, `Recovery` | paged reports over moving data; the recovery of one torrent |
| `DiscordNotices`, `DiscordPanel` | alerts with durable claims and a cursor; the access gate and the panel |
| `V1Import` | import and rollback of inventories against a running system |
| `DatabaseBackup`, `HostBackup` | dumps with their rotation; host archives and their restore |
| `JobQueueProofs`, `TorrentLifecycleProofs`, `SchedulerCycleProofs`, `StorageAdmissionProofs`, `AccountsProofs`, `DownloadsProofs`, `ComponentProofs`, `ServiceProofs` | theorems (section 5) |
| `MC*` | instances for TLC (section 3) |

The header of each module says which files it models and what its variables
are; `map` in `PROJECT.json` gives the lines behind each definition. Definitions
called *mutated form* are not part of a specification: each is a plausible
mistake in the definition that follows it, and the property it is listed with
must notice the exchange.

The specifications meet at interfaces which each side states in its own terms:

* `JobQueue!FencedOwnership` (one execution at most passes `_owned_job` for a
  job) is what `TorrentLifecycle` assumes with the field `own` of an execution;
* `TorrentLifecycle!AcknowledgeStop` (any time, while a stop is pending) is what
  `SchedulerCycle!Commit` does, and `SchedulerCycle`'s `Orphaned`, `Joined`,
  `PurgeActivates`... are what the transactions of `TorrentLifecycle` do to the
  columns that the scheduler reads;
* the choice in `SchedulerCycle!Decide` is any set within the slots;
  `FairSelection` makes it, and `DynamicLimit` the number of slots;
* a lease is one bit per user in `TorrentLifecycle`; `Downloads` has its life, and
  `Manifest` what it serves.

### JobQueue and JobPromise

`job[j]` is a row, `exec[s]` the snapshot (`id`, `attempt_count`) that an
execution in slot `s` of a worker keeps in memory. `failures` is a history
variable: what the attempts *should* be.

| Action | Code |
| --- | --- |
| `Enqueue`, `ReusePurgeJob`, `RequestCancellation` | a new `TorrentJob` row, the job that `schedule_admin_purge` finds active, `request_torrent_job_cancellation` |
| `Claim`, `Renew`, `ClaimLost`, `DatabaseUnavailable` | `claim_next_torrent_job`, `_heartbeat` and its two ways to give up |
| `FinishSuccess`, `FinishPermanent`, `FinishTransient`, `FinishWaiting` | `_finish_success` and the branches of `_finish_failure`, behind `_owned_job`; a job that waits gets its attempt back until `WAITING_RETRY_BUDGET` |
| `RecoverExpired`, `Prune`, `Crash`, `Tick` | recovery, maintenance, the death of a process, the clock |

Ties between jobs of equal priority are broken in any order. Recovery is not
limited to a batch.

`ImplementsPromise` is the refinement: a row maps to the phase of its job
(`PhaseOf`: queued and running are both "open"), `failures` to its strikes and
the flag of an active row to the pending stop. It says in one formula that a
cancellation which is not withdrawn wins over every other outcome, that a job
ends once and is never revived, that it is given up after `max_attempts` real
failures and not before, and that only maintenance deletes it. A recovery moves
several jobs at once, so a step of `JobPromise` is a step of each job or none.

### TorrentLifecycle

`torrent`, `req`, `lease`, `usage`, `ledger` and `job` are the rows; `exec` is
where each execution is between the transactions of its handler; `qb` and
`content` are the outside world; `abandoned` is the list, in a worker's memory,
of torrents whose addition was failed by recovery.
`CreateTorrent`/`JoinTorrent` are the branches of `create_or_get_torrent_request`;
`CancelRequest` and `ExpireRights` end in `_schedule_deferred_purge`;
`AddStart`, `AddIntegrate`, `AddCommit`, `SyncStart`, `SyncInspect`,
`SyncCommit` and the `Purge*` actions are the stretches of the three handlers
between two points where something else may run. `Finish`, `RecoverClaim`,
`HandlerFails`, `Vanish` are the worker around them. `Stalls = TRUE` lets an
execution go on after it lost its claim (a thread that cannot be cancelled);
`Operator = TRUE` adds the operator's recovery of a torrent that qBittorrent
lost. Identifiers of finished jobs are used again, so runs contain any number of
jobs and lives. Left out: progress figures, the manifest (which `Manifest` has), and
columns that only the scheduler reads.

### SchedulerCycle

`row[t]` holds the columns the scheduler reads (`held`: somebody has an active
right; `desired`, `forced`, `stop` markers), `cycle[s]` where scheduler `s` is in
`run_once` and what it captured. `Decide` is the first transaction;
`StopsApplied`, `ControlsStop` and `ControlsStart` the HTTP phases;
`Commit` the second transaction; `Renew`, `KeepLease`, `Release`,
`LeaseExpires` the singleton lease; `StopsFail`, `ControlsFail`, `CycleFails`
every way to stop half-way. The other actions are what users, administrators and
the worker do to a torrent meanwhile. Choices made here:

* a captured `lifecycle_generation` is only compared for equality, so a capture
  is a set of torrents and every increment (`Bump`) takes the torrent out of it;
* the gateway's look-up and its stop call are one step; its start call is
  another, made with the list the look-up gave;
* one qBittorrent; `Unreachable` are the torrents its gateway skips;
* which of `RetryResync` and `RetryAdd` a retry takes is left open;
* `routes/admin_v2.py:290-302` handles an ownership error that
  `apply_managed_controls` cannot raise (it skips such torrents): not modelled.

`Overrun = FALSE` in all runs: no phase outlasts the lease and an
administrator's start call returns before the torrent lost its rights and was
purged. The code renews the lease before each batch but does not fence the calls
themselves. With `Overrun = TRUE` TLC violates `StoppedBeforePurge`: a first
scheduler is about to send its start call, its lease expires, the torrent
loses its last owner and its purge is activated, a second scheduler stops it and
acknowledges, and the first call arrives. The code accepts that window, so no
run claims anything about it.

## 3. The runs

A run asks its questions of one specification (`job_queue`, the two
of the torrent's life, the two of the scheduler), or of several that are checked side by side. In the
second form the MC module picks a `scenario` in its initial state. It extends one of
the components, whose theorems speak of a property of the run (`StorageAdmission` in
`content`, `Downloads` in `progress`, `RestartChannel` in `realtime`, `Accounts` in
`accounts`, `SchedulerCycle` in `platform`); the others are instances, and the
variables `x1`, `x2`, ... stand for their variables. The disjuncts of `MCNext` are the
components' own next-state relations. Nothing is composed: it is one TLC run in place
of several small ones. The properties of the extended component are checked as its
module defines them. Each other property is the conjunction of properties of
components that belong together; the comment above it names and states the parts,
whose definitions are in the components' modules. A liveness part is written
`[]<>(scenario = ... => ...)`, since a scenario never ends. The type invariants are
checked with the first invariant of the run, those of `realtime` with `LimitPaced` (or
in the other runs of the component). The parameters of the components that theorems
speak of are checked as well (`LoginParameters`, `ImportParameters`, ...), and so are
the inductive invariants of section 5: those of the instances are parts of the
invariants below (`GatewayInv` of `OutsideTruthful`, `ProvisioningInv` of
`ClientsServed`, `LimitInv` of `LimitPaced`, and so on).

The runs of the core have no module of their own: their configurations instantiate
`JobQueue` through `MCJobQueue`, and `TorrentLifecycle` and `SchedulerCycle` directly,
with the symmetry set `Interchangeable` that these two define.

| Run | Instances | Distinct states | Time |
| --- | --- | --- | --- |
| `job_queue` | 2 jobs of 2 attempts, a worker with two slots and one with one; TTL 2, time-out 3, waiting budget 2 | 522 k | 1.5 min |
| `lifecycle_rights` | 2 users, an addition, an observation, a purge, 2 slots | 667 k | 1 min |
| `lifecycle_stalls` | 1 user, 2 additions, a purge, 2 slots; executions that stall, operator recoveries | 552 k | 1 min |
| `scheduler_stops` | 2 schedulers, 2 torrents, 1 slot, administrators, failures, regressions | 859 k | 1.5 min |
| `scheduler_live` | 2 schedulers, 2 torrents, one unreachable, failures | 104 k | 2.5 min |
| `content` | token strings up to length 6; 4 files with names that collide; disks of 3 to 20 units; 2 users, 2 torrents and 2 transactions on a disk for one torrent, reconciled together, and 1 user who holds both, purged together; 2 streams; a browser, an addition and 2 parses of one torrent file | 1.18 M | 1.5 min |
| `progress` | 3 archives of an administrator for one place; a file and an archive with a restart; 2 uploads and a retry with one thread; 3 users with 4 torrents, one shared, 2 slots; 2 jobs; a tree of 2 entries per attempt; dumps over 4 days | 260 k | 2 min |
| `realtime` | 2 pages and 2 sockets; 2 requests to announce; 3 torrents under the dynamic limit; 4 restart requests; 3 streams for one fast lane | 363 k | 2 min |
| `accounts` | ten components with two actors each, tables of one or two entries, and the archives once more with an administrator | 1.97 M | 1.5 min |
| `platform` | eleven instances: options (2 administrators and 2 services; 1 of each and an edit of a row by hand), both option files, gateway, import, archives, reconciliation of 4 torrents in 2 accounts, recovery with and without a second one, slots | 1.65 M | 2 min |

What they show, property by property:

* `job_queue`: `FencedOwnership` (an execution that lost its claim writes
  nothing), `AttemptsCharged` (attempts count failures and nothing else), the
  inductive invariant `IInv`, `ImplementsPromise`.
* `lifecycle_rights`: `PurgeHasNoHolder` and `LeaseBlocksPurge` (content that
  somebody holds or downloads is not deleted), `Accounted` (the storage
  counters are exact), the inductive invariant `LifecycleInv` (which contains the
  `CHECK` constraint of the table, the deletion date of content nobody holds, and
  that a purge silences the other jobs), `PurgeIsOneWay`.
* `lifecycle_stalls`: `OneAddInCharge` (never two additions of one torrent that
  both count) with executions that stall past their claim and the operator's
  recoveries.
* `scheduler_stops`: `StoppedBeforePurge` (nothing runs while its content is
  deleted), `SchedulerInv`, `OrphanStopHonoured`. `scheduler_live`:
  `StopAcknowledged`, `FailedIsStopped`.
* `content`: `ContentsExact` (torrent files are read as they are written, paths do
  not collide, capacity is rounded to the safe side, a stream sends its range within
  its rates), `StorageKept`, `CirclesBatched` (no sessions wait for each other in a
  circle without a batch among them), `ManifestServed` (a download is of the
  files its client was shown, and they are stored).
* `progress`: `WaitsEnd` (for a place in the queue of archives, for a row an upload
  has locked), `LeasesEnd`, `TransfersExact` (slots, limits and requests of downloads
  are counted exactly, no archive loses its content while its lease holds),
  `SelectionFair`, `NobodyStarves`, `WorkEnds`, `DeletionsSafe`, `KeepsPromised`.
* `realtime`: `EventsArrive`, `PausesEnd`, `LimitPaced`, `RestartedOnce`.
* `accounts`: `CredentialsSafe` (a session was opened with the password in force,
  a wrong one is counted), `ResetOnce` (a recovery link works once),
  `ClientsServed` (the other invariants, those of downloads with two archives of
  a user and of an administrator among them), `NothingTakenBack`.
* `platform`: `SettingsKept`, `OutsideTruthful`, `RecoverySafe`, `WithinSlots`,
  `NothingOverwritten`.

Why the bounds are enough to make the interesting cases happen: two executions
of one job need two slots of *one* worker (the fence by worker name is then
useless) and a third elsewhere; a claim has to expire before the time-out and be
renewed at least once (2 < 3); a job of a previous life needs a second addition
identifier; a second user makes "the last right" different from "a right"; a
torrent chosen against another needs fewer slots than torrents, and a takeover
two schedulers. A table of one or two entries is full at once, so the limiters
evict and overflow; two transactions are enough for a circle of locks because
each takes several; three archives for one place let one leave in the middle of
the queue; a window of two measurements is the shortest that can be cut in half;
three page reads over moving rows are the fewest that can skip or repeat one. Every
bound has a name (`MaxFaults`, `MaxRestarts`, `MaxPurges`, ...) and stands in the
guard it limits. The run `lifecycle_stalls` has no observation job: with one the run
takes more than ten minutes; the proof covers it. `WithinSlots` is checked without
failures and administrators, who both run torrents outside the slots by design.

Symmetry is used only in runs without liveness, over actors that the
specification treats alike. Deadlock is checked for the three specifications of
the core. The other components may really stop: requests answer and are not sent
again once a bound is reached.

### Runs that are violated

Two runs state what a document or a comment says, and TLC violates them with what
the code does (`findings` in `PROJECT.json` quotes both sides):

| Run | Behaviour |
| --- | --- |
| `doc_purged_means_gone` | an addition in flight when the torrent is purged adds it to qBittorrent after the deletion |
| `doc_window_skips` | the scan window and the rotation of the slots advance in step, so that a user is outside the window whenever the slots change hands |

### Known disagreements

The modules also define eight properties that a comment or a document states and
the code does not have. No run claims them; each is refuted within minutes by a
configuration with that one property.

| Property | Instance | Behaviour |
| --- | --- | --- |
| `TorrentLifecycle!ReadyHasContent` | `MCPurgedMeansGone.cfg` | an observation from the previous life makes the new, empty torrent `READY` |
| `TorrentLifecycle!AddHasDriver` | `MCPurgedMeansGone.cfg` | the list of abandoned additions is lost with the process: the torrent stays `ADDING` without a job |
| `TorrentLifecycle!LeaseProtectsContent` | the same with `Stalls = TRUE` | a deletion that stalls past its claim removes the content of the next life, leased |
| `SchedulerCycle!FailedIsKnown` | `MCSchedulerLive.cfg` | a retry clears the markers by which a failed, running torrent is found; a second failure leaves it running for good |
| `FairSelection!QuantumKept` | the scenario `selection` of `progress` | a retained shared torrent counts against its first owner only, and displaces another one between two rotations |
| `FairSelection!AdmissionsPaid` | the scenario `selection` of `progress` | retained torrents paid for their slot when they were admitted, yet a user whose balance a new admission brings to exactly zero gets the balance back that it had before, because some torrent was retained in the same cycle: the admission was free |
| `StorageAdmission!NoDeadlock` | the scenario `admission` of `content` (`ReconcileBatch = 2`); or two users, four torrents, `AdminBatch = 2` | a reconciliation of two users locks their usages in any order; a purge of two torrents locks the usage of their holders torrent after torrent, an expiration of two others in the order of the users: each waits for the other until Postgres aborts one |
| `HostBackup!SnapshotMatches` | the scenario `archives` | services are compared with the running ones once, so one that starts again changes the state bound to a snapshot |

`Realtime!SocketEnds` joins them when events never pause (`Busy = TRUE`): the
session behind a socket is checked only after a heartbeat without events,
although the check is there because "a socket must not outlive its logout"
(`auth/dependencies.py:178`).

Three more differences with `src/docs/state-machines-v2.md` and the code's own
comments need no run: the code checks transitions against no list
(`purge_torrent` enters `PURGE_PENDING` from any state, `add_torrent` ends in
`PAUSED`); a request never revives a torrent in `PURGE_PENDING`, since that state
is entered only when `purge_after` has passed and such a request is refused
(`torrents/deduplication.py:138-141`; `PurgeIsDue` is the invariant behind it);
and NewGreedy's configuration is renamed over an operator's edit without the
comparison that `.options` makes (`EditKept` has the file's kind in it).

## 4. Fairness

Each specification states the fairness that a loop, a timer or an event loop of
the code gives; MC modules repeat it for their scenario.

| Module | Fair | Because |
| --- | --- | --- |
| `JobQueue` | the clock, some claim, recovery, the notice of a lost claim | loops and timers that do not depend on handlers; handlers may hang and processes crash for ever |
| `SchedulerCycle` | lease expiry, some decision, leaving a phase; strongly, the success of each phase in a cycle without an earlier failure | polling, time-outs on every call; outages end, though not at any given try |
| `FairSelection`, `DynamicLimit` | the scheduler's cycle (and the clock for the second) | the loop of `scheduler_service.py` |
| `Downloads` | each response goes on, each heartbeat runs; `LeasesEnd` alone also needs the clock | the event loop resumes tasks that can run; clients may stay silent |
| `DownloadTraffic` | the clock and the fast streams | a client that does not take its chunk in time is cut off; nothing is assumed of slow streams |
| `UploadStaging` | threads finish, requests are resumed | disk calls return |
| `ContentStore` | the purge is tried again | the queue's retries; each attempt may be cut short anywhere |
| `Realtime` | each socket's server loop, each page's load and poll | event loop and browser timers |
| `DiscordNotices` | the bot's cycle | its background task; a kill may cut any cycle, within `MaxFaults` |
| `RestartChannel` | clock, writer, helper | a systemd path unit starts the helper |

## 5. What is proved

All theorems are checked by TLAPS for every value of the constants, from the
assumptions that the modules name: `QueueAssumption`, `ConfigAssumption`,
`LifecycleAssumption` and `SchedulerAssumption` are assumptions of their modules;
in a component that a run instantiates more than once, or beside others, the same
is the definition `Parameters`, a hypothesis of its theorems. What a theorem
assumes beyond them stands in its statement and below.

**JobQueueProofs.** `QueueInvariant`: `IInv` is inductive; type correctness,
`FencedOwnership`, `AttemptsCharged` and `ClaimWithinTimeout` follow. The fence
is the attempt number, and `FinishWaiting` gives numbers back, so uniqueness of
the current number is not inductive alone: `TokenOK` adds that no execution of an
active job holds a number *above* the row's. A number given back is therefore
held by nobody when it is taken again. `QueueKeepsPromise`: `JobQueue` implements
`JobPromise`. `Moves` says in terms of rows what a step may make of one of them;
each action is shown to move every row that way, and each such move to be a step
of the promise or a stutter. It needs one more fact than `IInv`, that a row which
is not inserted yet carries no cancellation (`FreshRows`).

**TorrentLifecycleProofs.** `LifecycleInvariant`, with stalls and operator
recoveries included, and from it `NoHolderWhilePurging`,
`LeaseKeepsOutOfPurging`, `StorageAccounted`, `SingleAddInCharge` and
`CheckConstraintHolds`; under `~Operator` also `NoOrphanLeaks` and the action
property `PurgeOnlyCompletes`. What the strengthening adds: `PurgeIsDue` (a
purge never gets its date back, hence no request is admitted during it),
`Ownership` (executions that own their claim are alone on a `RUNNING` job),
`PurgeSilencesJobs` (an execution that could write a state owns a job that is
cancelled) and `PurgeOutcomes`.

**SchedulerCycleProofs.** `SchedulerInvariant`, and under `~Overrun`
`NoRunningPurge`. The argument: a scheduler at work holds the lease (`Leader`),
so nobody else starts anything; a stop captured for a purge is either still to
be applied, has failed, or has worked (`StopOwed`), so `Commit` acknowledges only
stops that worked; a purge outdates what was captured for a forced torrent
(`OrphansOutdated`), so no other acknowledgement stands in for it; and no resume
is under way for a torrent that is being purged.

`ForcedStopHonoured` (property `OrphanStopHonoured`, under `~Overrun`) is about the
same marker, `purge_stop_pending`, on a torrent that an administrator had started
(`admin_forced_active`) and that lost its last right: `Commit` withdraws it only from a
torrent that qBittorrent has stopped. Its invariant `OrphanInv` follows a captured stop
through the cycle as long as the marker stands: that cycle does not start the
torrent and stops it before it acknowledges, and no resume is under way. `SlotsKept` (property `WithinSlots`)
bounds what runs by the slots, through failed calls, crashes and changes of leader.
Besides `~Overrun` it assumes what the run assumes, for the same reason: no
administrator's start and no failing torrent (`~Admin`, `Troubles = {}`), since both
run torrents outside the slots by design. `SlotInv` adds what the property leaves
open: until the start call, whatever uses a slot was chosen or is among what this
cycle stops first (`Planned`), and torrents come to the scheduler stopped (`Calm`).

**StorageAdmissionProofs.** Sessions lock rows one by one and use what they read
before they waited. `CountersKept` (property `StorageKept`) holds for any number of
users, torrents and sessions and all batch sizes. The invariant `StorageInv` adds
to the counters what each session is prepared for: the locks that it holds or still
needs before it may commit (an admission and a cancellation their user and their
torrent, a purge its torrents), that the rights it will end are still there under the locks it holds, and
that the sums of a reconciliation cover the rights of the users it locked.
`Respects` states what the other sessions leave alone meanwhile. Bytes are sums
over sets of torrents; the library's induction over finite sets is out of reach, so
the lemmas about sums take a least counterexample by the size of the set.
`NoCircle` (property `CirclesBatched`) holds for all batch sizes too: reconciliations
of any number of users, purges of any number of torrents. It ranks the locks, users
before torrents before usages (in the order of the users) before the ledger. `LockInv`
says that every session climbs, except a purge that has read the holders of a second
torrent and a reconciliation that has read the rights of a second user (`Batched`): the
former goes back to earlier users, the latter takes usages in no order. So in a circle
the session that holds the highest lock waits for a lower one, and is one of those.
Circles with them exist, as section 3 says.

**AccountsProofs.** `AccountsInvariant`, `CredentialsKept` (property
`CredentialsSafe`) and the action property `LinksWorkOnce` (property `ResetOnce`). A login, a change of
password and a reset hash outside their transactions; what makes the late write
safe is that each compares the row with what it read. `Rows` and `LinksSpent` add
to the properties that a window of the throttle never exceeds its setting and that
only the latest link can be unused. Not part of it is the bound of `TypeOK` on the
count of failures, which depends on the bounds of the instance.

Two components with pools of threads follow, as instances that share no state with
`Accounts`. *Provisioning*: `ProvisionedOnce` (`OneAccountPerKey`, `PoolCounts`) and
the action property `QuotaStands` (`QuotaKept`); the invariant `ProvisioningInv` adds
that what a request made is written down under its key and its member before anybody
else gets the lock, and that work that was not sent has no place in the pool.
*UploadStaging*: `UploadsExact` (`PoolExact`, `OneReadPerKey`, `NoOrphanFile`) and the
action property `PayloadsKept` (`UploadsKeepPayload`). A request that has left still
has work in the pool, a closed pool cancels work whose request holds the row lock, and
a commit may take place although it failed, so `StagingInv` says of each request where
it is: in the pool exactly while it waits or has left (`Placed`); the holder of the row
lock finds the row as it locked it (`Held`), which makes the key it publishes under the
row's own; a published file is of an upload still at work, of the row, or one that may
be left, since its commit has no known outcome or the disk refused to remove it
(`Filed`); and what an upload will clean up no committed job needs
(`Kept`). That last fact is why a file is removed by its inode and not by its name.

**DownloadsProofs.** `DownloadsInvariant` and `DownloadsExact` (property
`TransfersExact`), for any downloads, users and limits. Four facts carry it: a
ticket is in the queue once, and in it exactly while its download waits
(`TicketsOnce`); a slot is given back before the lease (`SlotsFirst`), whatever
cancellation interrupts the clean-up; a slot is held under a live lease, or the
download is known to be late; content that is being purged has no live lease
(`LeasesKnown`). The limit per user binds everybody but administrators, whom both
archive routes exempt; the limit of all archives together binds them too.

**ComponentProofs.** Six components that share no state: `Manifest` is extended,
the others are instances. They are in one module because each needs a few hundred
lines; no proof uses a fact about another component. Their hypotheses are
`ManifestAssumption` and each component's `Parameters`, which say that sets of requests
are disjoint or finite, that placeholders are not values, and that the defaults of the
registry obey its own rules.

* *Manifest*: `DownloadsAsListed` (property `ManifestServed`). An id names a request, a
  version and a checksum. `ManifestInv` rests on this: while a right is active the
  version only grows, and a new version means new rows, so a label that still fits is of
  the rows there are now. That a right which ended and came back cannot revive an old id
  is the reason the request is part of it.
* *Gateway*: `AnswersTruthful` (`AddTruthful`, `SessionOwn`) and the action property
  `RemovalsTruthful` (`RemoveTruthful`). Whoever has a session holds the lock and the
  cookie (`LockHeld`), and what is about to be removed was the application's when it was
  looked up and still is (`OwnRemoved`), although lost calls may arrive later.
* *V1Import*: `ImportMapped` (`NoDangling`, `MappingKept`) and the action property
  `ImportedRightsKept` (`RightsKept`), for any number of inventories. A rollback is
  allowed for the newest applied inventory alone; `FromEarlier` is what makes that
  enough: the rights of an inventory never hang on a later one.
* *Recovery*: `RecoveredOnce` (`OneRecovery`) and the action property
  `RecoveriesHarmless` (`RecoveryHarmless`). `Chain` orders the jobs by the keys under
  which they were inserted: only the newest can be unfinished, whoever asks again.
  `Missing` is the race between the two probes and the row: what a job found missing is
  still missing, or its record no longer fits the row and never will (`Gone`), since
  jobs and requests are never numbered twice. A job that a worker is running when the
  recovery applies is only told to stop and may take effect later (`EndLate`); the
  records taken before no longer fit, since the recovery raised the generation.
* *OptionRegistry*: `OptionsServed` (`ReadersServed`, `AuditExact`) and the action
  property `OptionsNotLost` (`NoLostUpdate`). Rows are locked one by one in the order of
  their keys; what a transaction validated stays true until it commits, as it holds
  every row there is (`Knows`), and of two services that insert, the second waits for
  the first (`Apart`).
* *AccountRouting*: `RoutesRecorded` (`AddedUnderRecord`) and the action
  property `RoutesSticky` (`RouteSticky`). What a worker has read of the row is true
  while it holds it; a route that was recorded under a slot stays (`Holds`), so the
  torrent is added where the row says although the HTTP call comes after the commit.

**ServiceProofs.** Five more components that share no state: `RestartChannel` is
extended, the others are instances with their `Parameters` as hypotheses.

* *RestartChannel*: `NeverRestartedTwice` (property `RestartedOnce`): the request file is
  gone before Docker is called, and no number is written twice (`OnceInv`), for any
  number of requests, crashes and any ages.
* *DynamicLimit*: `LimitStands` and `LimitMovesOnEvidence` (`FullWindow`,
  `RefillWaits`). The window in the database and what really ran are two things:
  `LimitInv` says that the set it names is the one that the last cycle saw, and that it
  counts no cycle more than have gone by without a change.
* *OptionFiles*: `FilesWhole` (`Whole`) and the action properties of `FilesNotLost`
  (`ThreadsSerial`, `EditKept`, `BackupPrevious`). In `FilesInv`, whoever is between its
  reading and its rename holds the lock, what it read is what the file has unless
  somebody edited it by hand, and a stamp that is still the same means that nobody did.
* *HostBackup*: `RestoresWhole` (`RestoredWhole`). `BackupInv` binds the two halves of an
  archive: whatever lies under a snapshot's name was copied after the snapshot was taken,
  in each step of each run that overlaps (`Known`), and a restore has verified the
  archive that it names.
* *Realtime*: `SocketsCounted` (`SlotsCounted`) and `EventsShown` (`HeardIsShown`). A
  reload either began after what the page has heard, or another is queued (`Asked`); so
  nothing heard is lost, although the answer may be older than the event.

Theorems about an instance (`QB!AddTruthful`) name the property in the component's own
module; in the runs it is a part of `OutsideTruthful`, `RecoverySafe`, `SettingsKept`,
`ClientsServed`, `NothingOverwritten` or `NothingTakenBack`.

Only model-checked:

* liveness (`NobodyStarves`, `WorkEnds`, `WaitsEnd`, `LeasesEnd`,
  `EventsArrive`, `PausesEnd`, `StopAcknowledged`,
  `FailedIsStopped`): fairness and `ENABLED` are out of the prover's reach;
* what the conjunctions over components say of those not named above: `SelectionFair`;
  `DeletionsSafe`; in `ClientsServed` the two limiters, the panel and the notices; in
  `OutsideTruthful` the reports of the reconciliation; `KeepsPromised`. Their state is
  small and their arguments short, or (the limiters, `FairSelection`, `DatabaseBackup`,
  `DiscordNotices`) an algorithm over sequences;
* in `ContentsExact` the streams (`DownloadTraffic`) and `StorageCapacity`, which are
  arithmetic with division over all inputs in the bounds;
* in `ContentsExact` also `Metainfo` and `TorrentPaths`: they compute over sequences by
  recursion, and induction over data is out of the prover's reach;
* the violations.

## 6. Plan

1. Proofs about the components that are only model-checked, first
   `DiscordPanel!GateExact` and `ContentStore!ElsewhereKept`; `StorageAdmission!NoDeadlock`
   in place of `CirclesBatched`, once the code orders the locks of its batches.
2. Liveness of the purge: a torrent may be left in `PURGE_PENDING` without a job
   when a purge job that was flagged as cancelled activates the purge, cancels its
   replacement and ends `CANCELLED`; the administrative purge repairs it.
3. `TorrentLifecycle` with the leases of `Downloads` in place of its one bit.

Not modelled, and why:

* the HTTP clients of C411 and NewGreedy and the monitor: they keep no state;
  adding through them is in `AccountRouting`;
* request parsing, serialisation and the read-only routes and listings;
* the queries of `scheduler/queue_visibility.py`: a wrong answer delays a refresh
  that the page's poll repeats;
* wake-up signals and the cached fast path in Redis: they shorten a poll;
* metrics and operational reports: they change no state;
* the front end but for the page that follows the torrents, and the texts and
  views of the Discord bot;
* the deployment, pilot and load scripts: sequences of commands that an operator
  runs against a system that is stopped or under test;
* cryptography, tokens and cookies; the format of archives; the paths and sizes of
  single files.

## 7. Running

    tlc -workers 2 -config MCSchedulerStops.cfg SchedulerCycle
    tlapm SchedulerCycleProofs.tla

Each union run has a configuration of its module's name
(`tlc -workers 2 -config MCContent.cfg MCContent`).
