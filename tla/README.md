# Verification of linux-patch-api

linux-patch-api is an agent that runs on a managed Linux host. A manager calls
it over mutually authenticated HTTPS to list, install, update and remove
packages, to apply patches and to reboot. Each mutation is a *job*: the handler
admits a record, answers 202 with its id and spawns a task; the task waits for
the one package-mutation slot, runs the package manager in a blocking thread
and records the end. Around that core the agent enrolls itself with its manager,
keeps a revocation list, an allow list and the manager's package repository up
to date, and reports job events to WebSocket clients.

This directory models these parts in TLA+, checks them with TLC and proves with
TLAPS the safety properties of every part, that the scheduler implements an
abstract specification of the host, and that an append to the allow list
implements one that happens at once.

Source paths below are relative to the repository (`src/` here stands for the
crate's `src/` directory, so `src/jobs/scheduler.rs` is
`src/src/jobs/scheduler.rs` in `PROJECT.json`).

## Inventory

| Component | State | Operations | Talks to |
|---|---|---|---|
| Operation scheduler (`jobs/scheduler.rs`) | `SchedulerState` behind one tokio mutex: admission mode, job map, `active_mutation` with generation, `self_update`, `reboot_pending`, one `Notify` | `admit_job`, `try_reserve_self_update` / `release_self_update`, `reserve_reboot` / `admit_reboot` / `begin_reboot_execution` / `set_job_rebooting` / `rollback_reboot`, `dispatch_mutation`, `complete_job`, `fail_job`, `delete_job`, `create_rollback_job`, `freeze_admission`, `persist_jobs`, `load_history`, `recover_orphaned_jobs` | called by every handler task; calls persistence; sends events |
| Job record (`jobs/manager.rs`) | status, operation, packages, timestamps, boot id | status predicates, `is_internal`, `current_boot_id` | used by the scheduler and the history |
| Mutation handlers (`api/handlers/packages.rs`, `patches.rs`) | one spawned task per job | install, update, remove, self-update, apply patches (with an optional reboot), patch-list refresh | scheduler, backend |
| System and job handlers (`system.rs`, `jobs.rs`) | one spawned task per reboot or refresh | reboot, health check with background refresh, get / list / delete / rollback jobs | scheduler, backend |
| Job history (`jobs/persistence.rs`) | `jobs_history.json`, the older `running_jobs.json` | `persist_all_jobs`, `load_all_jobs` with migration | scheduler, startup |
| Startup and shutdown (`main.rs`) | – | enroll or serve, load, recover, flush, start the background tasks; SIGTERM freezes admission | everything |
| Command runner (`packages/coordinator.rs`) | child process group, reader threads | spawn, time out, TERM then KILL, collect the output | backends |
| Package backends (`packages/mod.rs`) | `APT_MUTEX`; the package database and its lock files | refresh, install, update, remove, apply patches, self-update, with repair, retry and fallback, for five package managers | command runner, cache |
| Error classification (`packages/error_utils.rs`) | – | `CommandError`, `classify_error` | backends, handlers |
| Package cache (`packages/cache.rs`) | time of the last refresh, in memory and in `cache.json` | staleness test, mark success / failure, persist | handlers, backends |
| Job events (`jobs/websocket.rs`) | broadcast channel, one listener task and one actor per client | subscribe, forward, heartbeat | scheduler sends, clients receive |
| Revocation list and mTLS (`auth/crl.rs`, `mtls.rs`) | list on disk and in memory, refresh task, health task | load, fetch, verify, replace, re-evaluate; check at every handshake | manager, TLS handshakes |
| IP allow list (`auth/whitelist.rs`) | `whitelist.yaml`, parsed entries | load, check, append | middleware, enrollment |
| Rate limit, header check (`api/rate_limit.rs`, `security_headers.rs`) | one bucket per worker, tier and address | admit or refuse a request | middleware |
| Enrollment (`enroll/client.rs`, `mod.rs`, `provision.rs`) | configuration with the saved token, certificate files, temporary files | register, poll, provision, append the manager's address | manager, configuration, allow list |
| Repository health (`enroll/repo_health.rs`) | key and sources of the manager's repository, `synced` | self-heal at startup, periodic sync, health report | manager, package manager |
| Host identity, other configuration, routing, logging | – | read once | everything |

### What is hard here

* **Interleaving.** Handler tasks meet at one lock, but each method is several
  locked sections with awaits between them. `dispatch_mutation` tests, unlocks,
  and only then creates the `Notified` future; a release wakes one waiter only.
* **Cancellation.** A request future is dropped when its client disconnects.
  Whatever a method has set before an await and undoes after it is left behind.
* **A timer racing the work.** The watchdog's backstop gives the slot away while
  the blocking operation may still execute; a command's deadline races its exit,
  and its process group may outlive the call and the agent.
* **Reservations that race with each other.** Self-update, three tiers of reboot,
  the reboot a patch asks for, and rollback of a reservation whose reboot command
  failed, twice if the guard is dropped as well.
* **Crash and restart.** The agent is restarted by its own package upgrade, dies
  with the machine it reboots, and must say afterwards what became of each job.
  Enrollment, the revocation list and the repository are several files replaced
  one after the other.
* **Two processes, one set of files.** An administrator's `--enroll` runs beside
  the service and writes the same configuration, certificates, allow list and
  repository files.
* **Snapshots that are written late.** `persist_jobs` clones under the lock and
  writes after it; so does the cache.
* **Answers that do not come, or come late.** Registration, polling, fetches of
  list and repository configuration, slow WebSocket clients.

`PROJECT.json` lists the hazards one by one, each with its line and the
properties that would catch it.

### What makes each component correct

* Scheduler: one mutation at a time; the slot, a self-update and a reboot are
  always released by exactly their owner; a forced reboot does not meet a
  mutation; nobody waits for ever.
* Job history: a recorded end is what every later startup reports; every orphan
  is decided; a process restart is told from a reboot.
* Command runner and backends: no two commands write the package database at
  once; success means a clean database; held packages and timeouts are reported
  as such; no closure waits for a hung command for ever.
* Cache: the lists count as fresh only after a refresh.
* Job events: a client gets every event of the jobs it asks for once and in order,
  from the moment its receiver exists, except those the bounded queues may drop; a
  client that is gone is disconnected.
* Revocation list: a revocation arrives and is never undone; a failing refresh
  does not lock everybody out.
* Gate: an address passes exactly if the allow list says so; a worker lets it pass
  with at most one burst of destructive requests beyond the rate.
* Enrollment: the service never serves with a mixed bundle, lets its manager in,
  resumes its first enrollment instead of repeating it, and comes up in the end.
* Repository: healthy means installed; the administrator's own lines stay; the
  host converges to what the manager serves.

## Modules

| Module | Content |
|---|---|
| `Scheduler` | the scheduler with all handler tasks, its properties, the inductive invariant `Inv`, the refinement mapping `Host` |
| `HostExclusion` | abstract: which operations may be under way together with a self-update or a reserved reboot |
| `SchedulerProofs` | TLAPS proofs about `Scheduler`, the refinement of `HostExclusion` included |
| `JobHistory` | the history file, persist calls, deaths, startup |
| `CommandRunner` | one blocking call: deadline, signals, what is left of the process group |
| `PackageCache` | the age of the package lists, in memory and on disk |
| `PackageOps` | composes the two: five backends, their locks, closures on several workers, restarts |
| `JobEvents` | events from the scheduler to the sockets |
| `CrlStore` | the revocation list with its two tasks, the manager and the start |
| `Whitelist` | entries, mask arithmetic, parsing; a reference definition by ranges of addresses |
| `AccessGate` | composes the two: handshake, rate limiter, header check, allow list |
| `Enrollment` | the service and an administrator's run, start of the service included; the refinement mapping `List` |
| `AllowList` | abstract: an append to the allow list happens at once and is reported after it |
| `RepoSync` | the repository files between the sync task and an enrollment |
| `JobHistoryProofs`, `JobEventsProofs`, `PackageOpsProofs`, `CrlStoreProofs`, `AccessGateProofs`, `EnrollmentProofs`, `RepoSyncProofs` | TLAPS proofs about the module each is named after |
| `MC...` | constants, scenarios and symmetry of the runs |

In every module one action is one step that nothing else can interrupt: a locked
section, the code between two awaits, one file operation where another process
or a death may come next. Where a part is explored under several situations, a
*scenario* (chosen in `Init`, constant afterwards) names what is different in
each: the backend and the closures, or a budget of faults. The union of the
scenarios is one run.

A chain of tests in the code whose conditions overlap is an IF ... ELSE chain in
the same order: the arms of a TLA+ `CASE` have no order, so TLC would take the
first where a proof may assume none. `CASE` stands where the arms exclude each
other.

### Scheduler and HostExclusion

`pc[t]` is the await that task `t` is suspended at, and a task is named by its
job id. A task's own work between two locked sections touches nothing shared and
is part of the step before it.

| Variable | Code |
|---|---|
| `admission`, `active_mutation`, `mutation_generation`, `self_update`, `reboot_pending` | the fields of `SchedulerState` of the same name |
| `status`, `op` | the job map; `Absent` is a missing key. Packages matter only through `is_internal`, so they are folded into `op` |
| `permit`, `waiters` | `tokio::sync::Notify`: one stored permit and a FIFO of waiters. Tokio is not in the repository; the operators that model it are marked external |
| `gen`, `watchdog`, `closure`, `result` | the task that `dispatch_mutation` spawns, the generation it captured, the `spawn_blocking` thread and the oneshot channel |
| `rebootJob` | the `RebootReservationGuard` a patch task holds |
| `tier` | history variable: the force tier of the reservation |

| Actions | Code |
|---|---|
| `AdmitJob`, `CreateRollbackJob`, `TryReserveSelfUpdate` | the handlers that create a job, with the checks of `admit_job_inner` or `try_reserve_self_update` |
| `AdmitReboot`, `PatchReserveReboot`, `ReserveReturns`, `HandlerDropped` | `reserve_reboot` up to its persist await, and the return from it |
| `SetJobRebooting`, `BeginRebootExecution`, `RebootCommandOk`, `RebootCommandErr`, `RebootFailed`, `GuardDrop` | the reboot task, the tail of the patch task, `rollback_reboot`, `Drop` of the guard |
| `DispatchReject`, `DispatchWait`, `PollNotified`, `DispatchAcquire`, `SpawnWatchdog` | the wait loop of `dispatch_mutation`: tests under the lock, unlock, first poll of `notified()`, acquisition, persist await, spawn |
| `ClosureExits`, `WatchdogFinalize`, `ReceiveResult`, `CallerDropped` | end of the blocking call, watchdog (after the call or at the backstop), the caller's end of the channel |
| `CompleteJob`, `FailJob`, `DeleteTrackingJob`, `ReleaseSelfUpdate` | the ends of the tasks |
| `DeleteJob`, `FreezeAdmission` | `DELETE /jobs/{id}`, SIGTERM |

`FreezeAdmission` keeps the model running afterwards. In the service the process
exits soon after, which only cuts behaviours short.

`HostExclusion` has no queue, no tasks and no job records: five variables say
which user mutations and which cache refreshes are under way and what the host is
reserved for. An operation begins only on an idle host that is not reserved for
another; a self-update is reserved only when no user mutation is under way; a
forced reboot only on an idle host, a plain one without a self-update, the
acknowledged one always. The mapping takes a job for under way from its
acquisition to its watchdog's finalization (`Holding`). A plain reboot is *not*
promised an idle host, because the code does not look at the slot for it (see
Observations). `KeepsHostExclusion` is checked by `queue` and proved in
`SchedulerProofs`.

### JobHistory

A persist call is two steps, `Snapshot` (`get_all_jobs` under the lock) and
`Rename` (or `WriteFails`), and its caller goes on when it returned. Only calls
that the code makes are there: `admit_job` and the watchdog do not persist.
`Dies(machine)` loses memory and tasks at any moment, alone or with a new boot
id. `Migrate`, `Migrated` and `Load` are `load_all_jobs`; `StartWith` is the
startup sequence of `main`, with `Recover` for one record. Queueing is reduced
to what persistence needs (one mutation at a time, nothing starts while a reboot
is reserved), because `Scheduler` treats it in full.

`promised` and `rebooted` are history variables. An end is *promised* once the
persist call that follows it has written the file without an error; a startup
that could not read the file withdraws all promises, since the code then starts
with an empty map and overwrites the file.

### CommandRunner, PackageCache, PackageOps

`CommandRunner` is `run_async` with `Spawn`, `Deadline` (SIGTERM to the group),
`Escalate` (SIGKILL after five seconds) and `Returns`, whose results depend on
what the leader did and on whether a descendant keeps the pipe open
(`Drained`). A group is free, running, left with orphans, or doomed: SIGKILL was
sent and has no effect yet. `PackageCache` keeps `last_update` and its copy on
disk with the two histories that say why the lists may count as fresh.

`PackageOps` adds the processes (external: they take the database lock, write,
finish, are refused, die or leave children behind) and the closures of the
handlers. `stage[w]` is how far the closure is (refresh, retry, repair, apply,
fallback, second round), `at[w]` how far one call of `run_apt_safe` or
`run_pacman` is: `LockMutex`, `CheckLocks` and `RemoveLocks` (two steps, since a
process may start or end in between), the repair before, the command, the repair
after, the audit with its one repair. `Acceptable` is the exit codes each backend
takes for success, `Classify` is `classify_error` over the cause of the failure.
`AgentRestarts` ends every closure and keeps the processes, which have groups of
their own. Two workers run at once because the watchdog of the scheduler gives up
on the first at the backstop.

### JobEvents

An event is its position in the order of emission. `Subscribe` takes the
receiver inside the HTTP handler, `Started` starts actor and listener, `Lagged` and
`Receive` are the two arms of the listener's loop (`Forward` into the mailbox, or
`GiveUp` when `try_send` fails), `HandleEvent` is the actor with its filter,
`Heartbeat`, `Heard`, `Text`, `Close` and `ClientGone` are the life of a
connection. The broadcast channel and the mailbox are external, with their
capacities as constants.

Three history variables say what a client is due: `from`, the first event after
`Subscribe`; `unwanted`, the jobs its messages leave out (all but those it
subscribed to, or those it unsubscribed from); and `muted`, the events handled
while their job was left out. `EventsAccounted` asks for every event in
`from .. pos - 1` that is not muted and allows the muted ones to be sent or
withheld, so it holds of the code, whose filter withholds nothing, and would hold
of the filter the documents describe (see Observations).

### CrlStore, Whitelist, AccessGate

Time in `CrlStore` is relative: a list holds the time left until its
`nextUpdate`, a sleeping task the time until it wakes; `Tick` goes on to the next
deadline. `Start` is the load in `main` with its refusal of a list that does not
verify; `FetchFresh`, `FetchCached` (an older list that still verifies) and
`FetchFails` are the answer of the manager; `CreateTmp`, `WriteTmp`, `RenameTmp`
and `StoreList` the tail of `refresh_crl`, with `IoFails` and `Dies` between any
two; `RefreshOk`, `RefreshErr` and `Wake` the loop of `spawn_crl_refresh_task`;
`HealthCheck` the hourly look at the file. The two tasks share the one thread of
the main runtime, so `HealthCheck` waits while a refresh is between two awaits
(`Synchronous`). `Damage` and `Renew` are other processes.

`Whitelist` is the arithmetic of the code at any width, with the AND of two
numbers as the intersection of the sets of their bits (`Bits`), and `RangeOf` is
the meaning it should have. `AccessGate` has the connections, the handshake with its
look at the list (`Connect`), and `Request` through limiter, header check and
allow list in the order in which actix runs them. Each worker has its own
limiters: `new_transform` builds them, and actix calls it once for each worker.
`Replenish` is governor's `Quota::per_minute`: time gives one cell back to one
bucket, at any moment the bucket is not full, so neither the rate nor the order
among buckets is assumed. `excess` is the largest number, over all stretches of time
that end now, of destructive requests handled minus cells given back in the
stretch; it grows with a request and shrinks, not below 0, with a cell.
`DestructiveBound` says it stays within the burst: an address that sends without
pause, or saves its cells and sends them at once, gets `destructive_burst` requests
more than the rate gives, and no more. With `LimitsEnabled` FALSE (`rate_limit.enabled`)
nothing is limited.

### Enrollment

Two processes, `svc` and `cli`, run the same code: `Start`, `Resume` or
`Register` (`Conflict`, `RegisterFails`, `AnswerLost`), `Truncate` and
`WriteConfig` for the token, `AskAgain`, `Approved` or `PollEnds`, `OpenTemp` and
`RenameTemp` for each file of the bundle, `Repository`, `LoadList`, `LockList`,
`ReadList`, `RenameList` for the allow list, and the removal of the token.
`Serve` and `ServeRefused` are what `main` does afterwards. Files hold the number
of the bundle they came from.

The manager is external. It knows a host (`Known`) that has a request under decision
or that it approved once, and it may answer a registration of such a host with 409
(`Conflict`), as the comments in the code say ("Host already exists"), or take it
once more (`TakesRequest`); neither is assumed to be the rule. It may forget a
request: `Purge` leaves a pending one `expired` and an approved one `purged`, and
the poll of either is answered `not_found`, which ends the process like a denial and
leaves the token saved.

systemd is modelled by what the unit file says. The service is `Type=notify` and
gets ready only after it is enrolled, so `TimeoutStartSec` may end any start that
polls (`PollEnds`). Every start counts (`CountStart`): in a new interval the count
begins again, otherwise it goes up to `StartBurst`, and at `StartBurst` one more
start is refused for good (`StartLimitHit`, the state `failed`). Whether an
interval has passed is left open at each start, so both a service that fails fast
and one that is retried for ever are covered.

`Harm` records in `faults` which kind of mishap a death or an error caused, so that
each property can say exactly which mishaps it does not survive.

`AllowList` knows only the addresses in the file and those whose append was
reported. The mapping `List` takes them from `wl` and `promised`; `RenameList` is
an abstract append, `LoadList` of an address that is there already a
confirmation, and every other step, the death of a process included, must leave
both alone (`AppendIsAtomic`).

### RepoSync

The same two processes at the repository files. `Fetch` gets the version the
manager serves, `AlreadyConfigured` and `Mismatch` are the comparison,
`SkipKey`, `WriteKey`, `KeyClash`, `RenameKey`, `LineThere`, `WriteSources`,
`RenameSources` and `RenameFails` the provisioning, with the temporary names both
processes share. The six kinds of host differ in where the key goes, in which
form, and in whether the sources file belongs to the agent.

## Runs

Passing:

| Run | Instance | Shows |
|---|---|---|
| `safety` | 2 jobs, 2 reboots, all requests, nothing dropped | `Inv`; `SlotHasHolder`: whoever is named by `active_mutation` still has somebody who will clear it; `PlainRebootFence`; `DetachedNeverCompletes`; `NoLostWakeup`: while a task is parked, another can go on and leads to the next notification; `ReservationsHeld`: every reservation has a task that will resolve it; `ReservationClearedByOwner` although guards are dropped after a second reboot was reserved; `EndIsFinal`: a reported end does not change, but for a queued job failed by a reservation that is rolled back (see Observations) |
| `queue` | 3 jobs (two may be Running at once), 1 reboot, any caller and the reboot handler may be dropped | `OneMutation`, `ConcurrencyBound`, and the refinement `KeepsHostExclusion` |
| `live` | patches and self-updates, 3 jobs, 3 reboots, SIGTERM | `DispatchedJobsFinish`: waking one waiter per release strands nobody, even when a package manager hangs; `SelfUpdateReleased`; `ReservationResolves` |
| `history` | 1 job, 1 reboot, 1 old record, 2 deaths, 1 failing file operation | `PromisesKept`, `RestartIsNoReboot`, `InternalNeverInterrupted`, `ActiveHasTask` |
| `backend` | 8 scenarios over five backends, 2 workers, 2 process groups | `OneWriter`, `OkLeavesDbClean`, `HeldBackIsReported`, `TimeoutIsReported`, `FreshIsEarned`, `AlwaysAdvances` |
| `events` | 1 client, 2 jobs, 4 events through queues of 2 | `EventsAccounted`, `EventsArrive`, `GoneIsClosed` |
| `access` | 2 clients, 2 CAs, 2 workers, 3-bit addresses, 5 scenarios | `NeverLocksOut`, `RevokedStaysOut`, `RevocationArrives`, `GateMatchesList`, `DestructiveBound` |
| `enroll` | 5 tokens, 2 CAs of one name, 3 scenarios | `ServesWhole`, `ManagerCanReach`, `ConflictNeedsLoss`, `ComesUp`, and the refinement `AppendIsAtomic` |
| `repo` | 6 kinds of host, 2 versions, 3 scenarios | `HealthyMeansInstalled`, `AdminLinesKept`, `Converges` |

`SelfUpdateExclusive`, `ForcedRebootFence` and `OwnerBegins` follow from `Inv`, and
the two fences also from `KeepsHostExclusion`; `AppendsAreKept` follows from
`AppendIsAtomic`, but for its clause on temporary files. They are theorems of
their own and need no separate invariants in the runs.

Violated, each a disagreement between the code and what it, or a document, says
(`PROJECT.json` quotes the lines):

| Run | What happens |
|---|---|
| `reservation_leak` | The reboot handler is dropped at the persist await of `reserve_reboot`, before the guard exists: `reboot_pending` stays set and every admission fails until the agent restarts. |
| `history_overlap` | Two persist calls rename in the other order: after a restart a deleted job is back. |
| `crl_expiry` | With the intervals of the code, one failed fetch lets a list that is valid for a day expire: after the backoff the task sleeps the whole interval as well. |

### Bounds

* **Ids** (`Scheduler`, `JobHistory`). Each id is a fresh uuid and is used once,
  so a run ends when the ids are used up; that is why deadlock is not checked
  there: a service without requests legitimately does nothing. Every task that
  could be stuck is covered by the liveness properties instead. `Enrollment` ends
  in its dead ends in the same way. `backend` ends in `Finished`.
* **Two or three jobs.** Two contend for the slot; the third is needed for a
  waiter behind a waiter (lost wakeups, `ConcurrencyBound` with two at once).
  **Two reboots** let a late guard of the first meet the reservation of the
  second. `live` has as many reboots as patches, so that no patch is refused a
  reservation only because the model ran out of ids.
* **`MaxConcurrent`, `MaxQueueDepth`**: 2 and 3 (queue full with three jobs).
  `Scheduler::new` raises both to at least 1 (`.max(1)`, `scheduler.rs:139`), and the
  proofs hold for every such value.
* **`MaxInFlight`**: 1 in `history`, 2 in `history_overlap`. Together they show
  that overlapping persist calls are the only way this instance loses a promise.
  **`Retention`** 2 with three records, so truncation happens. **`MaxDeaths`** 2:
  one death inside the recovery from another. **`MaxErrors`** 1.
* **`backend`.** Two workers are all that overlap after one backstop; two groups
  are the command under way and one that outlived its call or the agent. Each
  scenario names one backend and the closures that can meet there.
* **`events`.** Queues of 2 with 4 events make a receiver lag and a mailbox fill;
  clients do not interact, so one is enough.
* **`access`.** Validity is two intervals as in the code (24 h and 12 h), the
  health task looks in between, and two backoff steps show the cap.
  `crl_expiry` has the code's own numbers, in minutes. Three bits have all
  cases of a prefix: 0, full width, in between, too long. Two workers show that
  limits are per worker; a destructive burst of 2 and a read burst of 1 make a
  bucket empty, partly full and full, and tell the tiers apart.
* **`enroll`.** Five tokens are more than the service can use up with the faults of
  each scenario (a registration of a known host is one of them, `again`), so the
  manager never runs out; a `StartBurst` of 2 for the unit's 5 lets the service fail
  once, come up, or be given up; `MaxAttempts` above `HardLimit` exercises the
  clamp; the second bundle has another CA of the same name and no list. Certificate
  and key share one temporary name, as the names of `config.yaml.example` do.
* **`repo`.** Two versions are one change at the manager. Each scenario has one
  fault of a kind, at any point.

### Fairness

* `Scheduler.FairSpec`: weak fairness of each task's steps, of the watchdog (its
  timer fires whether or not the operation returns) and of the task a dropped
  guard spawns: tokio polls every runnable task again, and its timers fire.
  Nothing is assumed of clients, SIGTERM, cancellation, or of a package manager,
  which may hang for ever. The reboot command returns with one of its outcomes.
* `JobEvents`: listener and actor are polled and the heartbeat interval fires;
  nothing of clients, who may be slow, silent or gone.
* `CrlStore`, `AccessGate`: the tasks run when due, time passes, systemd starts
  the agent again. Strong fairness of `FetchFresh` says that the manager does not
  fail *every* fetch for ever; any finite number of failures remains.
* `Enrollment`: a process goes on, and systemd starts the service again unless it
  has given it up. Of the manager: it decides each request one way or the other;
  it does not fail every registration of a host it does *not* know for ever, nor
  every poll of an approved request (strong fairness of `~Known /\ Register` and of
  `Approved`). Nothing is assumed of its answer to a host it knows.
* `RepoSync`: the same of `Fetch`; each process goes on with its files.

### Mutants

Every property of a passing run has a mutant: an operator, defined just before
the one it replaces and commented `Mutant:` or `As ..., but`, that changes the
code as a bug would (a dropped test of the owner, an off-by-one,
`notify_waiters` for `notify_one`, the oldest records kept, a read before the
lock). With it TLC finds the property violated.

## Proofs

Eight modules hold theorems. They hold for every value of the constants that
satisfies the named assumptions of the model: any set of jobs, clients, workers,
tokens or addresses, any limit, retention, capacity or threshold, any budget of
faults and any scenario. Fairness plays no part in them. Each theorem is read off
an inductive invariant that `Init` establishes and every action keeps.

| Module | Theorem | States |
|---|---|---|
| `SchedulerProofs` | `TypeCorrect` | `TypeOK` |
| | `InvHolds` | `Inv` |
| | `MutualExclusion` | `OneMutation` |
| | `SelfUpdateIsExclusive` | `SelfUpdateExclusive` |
| | `ForcedRebootIsFenced` | `ForcedRebootFence` |
| | `OwnerAlwaysBegins` | `OwnerBegins` |
| | `ReservationNeverStolen` | `ReservationClearedByOwner` (steps) |
| | `ConcurrencyIsBounded` | `ConcurrencyBound` |
| | `DetachedIsNeverCompleted` | `DetachedNeverCompletes` |
| | `PlainRebootIsFenced` | `PlainRebootFence` |
| | `SlotAlwaysHasHolder` | `SlotHasHolder`, if callers are not dropped |
| | `EndsAreFinal` | `EndIsFinal` (steps) |
| | `NobodyIsForgotten` | `NoLostWakeup`, if callers are not dropped |
| | `ReservationsAreHeld` | `ReservationsHeld`, if neither callers nor the reboot handler are dropped |
| | `ImplementsHostExclusion` | `KeepsHostExclusion` (refinement) |
| `JobHistoryProofs` | `HistoryTypes` | `TypeOK` |
| | `ActiveAlwaysHasTask` | `ActiveHasTask` |
| | `InternalIsNeverInterrupted` | `InternalNeverInterrupted` |
| | `RestartIsNeverReboot` | `RestartIsNoReboot` |
| | `PromisesAreKept` | `PromisesKept`, if persist calls do not overlap |
| `JobEventsProofs` | `EventTypes` | `TypeOK` |
| | `EventsAreAccounted` | `EventsAccounted` |
| `PackageOpsProofs` | `OpsTypes` | `TypeOK` |
| | `OneWriterAlways` | `OneWriter` |
| | `HeldBackIsAlwaysReported` | `HeldBackIsReported` |
| | `TimeoutIsAlwaysReported` | `TimeoutIsReported` |
| | `FreshIsAlwaysEarned` | `FreshIsEarned` |
| | `OkAlwaysLeavesDbClean` | `OkLeavesDbClean` (steps) |
| `CrlStoreProofs` | `ListNeverLocksOut` | `NeverLocksOut` |
| | `RevokedAlwaysStaysOut` | `RevokedStaysOut` |
| `AccessGateProofs` | `RequestsMatchTheList` | `GateMatchesList` |
| | `LimitersBound` | `DestructiveBound` |
| | `GateNeverLocksOut` | `NeverLocksOut`, of the gate |
| | `GateKeepsRevokedOut` | `RevokedStaysOut`, of the gate |
| `EnrollmentProofs` | `EnrollTypes` | `TypeOK` |
| | `AppendsAreAlwaysKept` | `AppendsAreKept` |
| | `ConflictAlwaysNeedsLoss` | `ConflictNeedsLoss` |
| | `AlwaysServesWhole` | `ServesWhole` |
| | `ManagerCanAlwaysReach` | `ManagerCanReach` |
| | `AppendsAreAtomic` | `AppendIsAtomic` (refinement) |
| `RepoSyncProofs` | `RepoTypes` | `TypeOK` |
| | `AdminLinesAreKept` | `AdminLinesKept` |
| | `HealthyIsInstalled` | `HealthyMeansInstalled` |

### Assumptions

* `SchedulerAssumption`, `HistoryAssumption`: ids are disjoint, limits are natural
  numbers, those of the scheduler positive, as `Scheduler::new` makes them.
  `NoneAssumption`, `RunnerAssumption`, `OpsAssumption`: the value for "nothing" is
  no file, worker, process, exit or error. In the code these are `None` of an
  `Option`, which no value equals.
* `EventsAssumption`: the two capacities (256 and actix's 16) are not 0.
* `CrlAssumption`, `RepoAssumption`: CAs and versions are positive numbers; 0 is
  a file that is not there.
* `WhitelistAssumption`, `GateAssumption`: addresses have a positive number of
  bits, entries of a file are addresses, networks with an 8-bit prefix or names, and
  bursts are positive (`RateLimiters::new` panics on a burst or rate of 0).
* `EnrollAssumption`: tokens are `1..n`, because `Register` hands out the least
  unused one; no certificate file has the temporary name of the allow list, which
  is written in another directory; `StartBurst` is positive.
* Four theorems carry hypotheses of their own, and all are needed.
  `SlotAlwaysHasHolder`, `NobodyIsForgotten` and `ReservationsAreHeld` assume that
  callers of `dispatch_mutation` are not dropped, which is so in the service, where
  they are spawned tasks that nothing aborts. `ReservationsAreHeld` also assumes
  that the reboot handler is not dropped. That can happen in the service, and
  `reservation_leak` shows the reservation lost; the theorem says that this is the
  only cause. `PromisesAreKept` assumes `MaxInFlight = 1`, one persist call at a
  time between its snapshot and its rename; `history_overlap` shows the property
  violated without it, so here too the theorem names the only cause.

### Scheduler and its refinement

`Inv` is the conjunction of

* `TypeOK`;
* `WaitersParked`: exactly parked tasks are queued, each once. Without it a
  notification could move a task that holds the slot or is inside a reboot;
* `WatchdogPhase`: while a watchdog runs its caller is at its await or dropped,
  and the channel is empty. Without it a job that finished could still be a holder;
* `SlotOwned`: a holder is named by `active_mutation` and has the current
  generation. `OneMutation` follows, and the watchdog's test of the generation
  always succeeds for the owner;
* `SelfUpdateExclusive` and `ForcedRebootFence`, inductive with the above: the
  barriers of `dispatch_mutation` keep new holders out, the tests of the
  reservations see the old ones;
* `ReservationOwned`: a task between `reserve_reboot` and the end of its reboot
  owns `reboot_pending`, and the reboot job has the status that its progress
  implies. `OwnerBegins` follows;
* `GuardHeld`: a guard is held by one patch task and has nothing left to clear
  when it is dropped. With `ReservationOwned` it gives `ReservationClearedByOwner`.

The argument goes action by action (`InvStep`). Most actions move one task
outside the slot and outside a reboot, and the lemmas `OrdinaryMove` and
`OrdinaryStep` show once that such a move, with or without waking a waiter,
disturbs nothing; `NotifyOneEffect` says what a notification may do. Steps of a
reboot are covered by `OwnerStep`, which needs `SoleOwner`: two tasks inside a
reboot would own the same reservation, hence are the same. What remains are the
acquisition, the watchdog, the cancellations and the reservation itself.

More results rest on `Inv`:

* `Bounded`: the Running jobs are a finite set within `MaxConcurrent`. Finiteness
  is part of the invariant, for cardinality says nothing without it. One action
  makes a job Running, and it has counted before.
* `Settled`: the record of a holder is Running or deleted, and a job that reports
  success, or is about to, has no operation left executing. With `Handover`, what
  a step may do to the holder of the slot, it gives `DetachedNeverCompletes` and,
  from the reservation to its rollback, `PlainRebootFence`.
* `SlotHasHolder` is inductive by `Handover` alone: a step that lets the slot name
  a job without holder needs a dropped caller.
* `RecordInv` ties a record to the await of its task: between its acquisition and
  its end a job is Running, Rebooting or deleted. With `Settled`, the steps that
  write a status then meet no end but that of a queued job: `EndIsFinal`.
* `WakeInv` is the safety core of `DispatchedJobsFinish`. `QueueInv`: a stored
  permit means an empty queue, a parked task is in it, and with somebody parked or
  about to park there is a permit or a task that drives (is about to test, holds
  the slot, or is on its way to the notification at the end of its turn).
  `AwaitInv`: a task at its await gets a result. `RunInv`: a Running job has a
  task in its turn. The step that could break it is the test that fails: then the
  slot has a holder (`SlotHasHolder`) or `max_concurrent` jobs are Running, and
  either way another task drives (`SomebodyDrives`). The gap between the test and
  the first poll is harmless because a notification in it is stored as a permit.
* `SelfHeld` and `RebootHeld` are the safety core of `SelfUpdateReleased` and
  `ReservationResolves`: the task of a self-update stays on its way to
  `release_self_update` (`SelfTask`), and a reservation is held by a task inside
  its reboot, from its creation to the rollback or a command that returned Ok.

The refinement proof uses `Inv` in three places: `SlotOwned` makes the host idle
when the slot is free (`SoleWork`), so an acquisition is an abstract `Begin`;
`WatchdogPhase` makes the finalization, and a caller dropped right after the
acquisition, an abstract `End`; `ReservationOwned` and `GuardHeld` make the
rollback of a failed reboot an abstract `CancelReboot` and the rollback of a
dropped guard a stutter. `SilentSteps` lists the steps that do not show,
`VisibleSteps` those that do.

### Job history

`HistoryInv` carries what a startup relies on. `OwnerInv` and `ActiveInv` tie an
active record to its task: without them `ActiveHasTask` fails after the step that
ends a reboot's task. `DownInv` says that before the server is up nothing is
active, `BootInv` that records of this process are of this boot, and those the
machine took down of an earlier one. `MapInv` demands the same honesty
(`Honest`) of memory, every snapshot a persist call has yet to rename, and both
files: each is copied to another sooner or later, so none may be left out.

`PromiseInv` adds that memory, file and snapshots all keep the promises
(`KeepsInv`), that a call about to promise something has it in its snapshot
(`CoveredInv`), and that one call at a time is between its steps (`WritersInv`).
`Keeps` allows a record to be absent if `Retention` newer ones exist. The lemmas
on `Kept` show that cutting off a map that keeps the promises keeps them, by
comparing cardinalities of the sets of newer records.

### Job events

`DeliveryInv` says of each open connection that what is written to the socket,
followed by what is queued (`Way`), and the losses are exactly the events from the
one after its subscription (`from`) up to where its receiver stands, each once and
in order (`Covers`). Until the connection is open its receiver stands where it was
created (`Fresh`), which is what makes the window between the HTTP upgrade and the
start of the actor harmless. `WayGrows` and `WayMoves` are the two facts about
sequences it needs: an event joins the end of the queue, and the head of the queue
joins the end of what was sent.

### Package operations

`OpsInv` has one part for each layer and one for each property:

* `RunnerInv`: a worker waits for one process group, its own; a group that was
  killed does not run. `AwaitedInv`: without a restart of the agent, a group runs
  only while a worker waits for it;
* `ControlInv`: only APT has the steps of `run_apt_safe`, and takes them inside
  the mutex; `SaysInv`: what an exit can say for the command that ran;
* `LockInv`: whoever writes the database holds its lock, and nobody runs while
  lock files are removed. The second half is what the `pgrep` test buys and what
  `OneWriter` needs: a lock file removed under a live owner would admit another;
* `FreshInv`: a fresh time, also one that a closure read earlier and has yet to
  write back, was earned;
* `HeldInv` and `LateInv`: where a closure that met held packages, or whose
  command was killed at the deadline, can be, and which error it carries there;
* `QuietInv`: inside the mutex after `dpkg --configure -a` succeeded, only the
  group waited for writes, and the audit tells what the database is. Through it
  an Ok means a clean database.

Steps of a closure are long, so the effects of the operators are lemmas
(`GotEffect`, `OutcomeEffect`, `LeaveEffect`, `DoneEffect`, `RefreshEffect`) and
the action proofs cite those.

### Revocation list

The theorems of `CrlStoreProofs` are about `CrlSpec`, the list without the gate that
composes it; those of `AccessGateProofs` carry them over to the gate. `CrlInv`: a
list about to be written was verified and revokes at least what this host knows
(`Verified`); the list signed last revokes what every list on the host does
(`Newest`, the manager never forgets); what is known is on disk before it comes into
use (`OnDisk`), so a restart at any step reads it back; and without a renewal there
is one CA and the file is one it signed (`OneCa`). Time is left out, for both
properties hold whatever the clock does: an expired list still refuses those it
names.

### Gate

`GateMatchesList` compares what the code computes with masks to ranges of
addresses, for every width. The library's induction theorems cannot be used (they
take an operator as a parameter), so the few facts about powers and bits that need
induction are proved by a least counterexample (`Least`, from the
well-foundedness of `<`): `PowSum`; `MaskBits`, a mask has exactly the first `p`
bits; `SameBits`, two addresses with the same bits from `s` on have the same
quotient by `2^s`. `MatchIsRange` puts them together, and `ListDecides` says what
the list in memory decides in terms of the file it was loaded from. The steps
need `ListInv` (while the process is up its list is what the file it read says)
and `ConnInv` (an open connection has a peer's address).

`DestructiveBound` needs `TokenInv`: what an address took beyond the cells given back
and what its bucket still grants are together at most the burst. A handled request
moves one from the bucket to the excess (`TokenRequest`: the tiers of the code and of
the property must agree on the method), a cell given back moves one back or
leaves the excess at 0 (`TokenReplenish`), and a start sets them to the burst and 0
(`TokensFull`). `TokenWrite` is the common part.

`GateKeepsList` shows that the gate's own steps leave the revocation list alone,
`Spec => CrlSpec`, so both theorems of `CrlStoreProofs` hold of the gate.

### Enrollment

`EnrollInv`: the holder of the lock reads or renames the allow list, what it read
is what the list holds, and the temporary file is its own or a process ended in a
write (`ListInv`); one process at a time enrolls until two overlap (`AloneInv`);
as long as no enrollment got as far as the allow list, the token of every request by
which the manager knows the host is in the configuration or about to be saved
(`TokenInv`); certificate and CA are of one bundle except the one being written
(`BundleInv`); a key on disk means a manager on the list, or a process on its way
to put it there (`AllowedInv`). The exemptions of the properties are these
invariants' hypotheses: each names the fault that a death at a certain step sets.

`AppendIsAtomic` needs `ListInv`: what the holder of the lock read is still what
the file holds, so its rename adds one address to it (`RenameAppends`) and loses
none. `ListRefines` goes through the other steps.

### Repository

`RepoInv`: only Alpine's file has several lines (`SingleSource`); the
administrator's lines are in it and in the temporary file that is about to replace
it (`Appended`); a sync that nobody disturbed finds its own temporary files and
has installed the key of the version whose sources it installs (`Undisturbed`).

### Only model-checked

* Liveness, which the prover does not do: `DispatchedJobsFinish`,
  `SelfUpdateReleased`, `ReservationResolves`, `EventsArrive`, `GoneIsClosed`,
  `RevocationArrives`, `ComesUp`, `Converges`.
* `AlwaysAdvances`, which speaks of `ENABLED`.
* The three violations are counterexamples; there is nothing to prove.

## Observations

What the models showed or had to follow although a comment or document says
otherwise, without a run of its own:

* **Scheduler.** `dispatch_mutation` says "4. Job must exist and be Pending"
  (`scheduler.rs:712`) and "Transition the job from Pending to Running" (`:22`), but
  only asks whether the job is Running already. A forced reboot is reserved and
  fails the queued jobs, its command fails, `rollback_reboot` opens the slot again,
  and the task of a job reported Failed acquires it: the record goes from Failed to
  Running and the mutation executes. `EndIsFinal`, with exactly this exception,
  shows that there is no other way to a second end. A plain reboot ignores the
  mutation slot, so it may meet a cache refresh (doc at `:334`). The backstop
  releases the slot while the operation executes (`:25`, `:642` say otherwise).
  Nothing dispatches a rollback job (`handlers/jobs.rs:232`, `API_SPEC.md:616`). If
  a caller of `dispatch_mutation` were cancelled at the persist await of the
  acquisition, the slot would leak (`SlotHasHolder` fails with dropped callers); in
  the service the callers are spawned tasks that nothing aborts.
* **Shutdown.** The comments at `main.rs:403` and `:628` say that the SIGTERM handler
  waits for a package operation to complete; `setup_sigterm_handler` (`:786`) freezes
  admission and stops the server at once, mutation or not, and says why.
* **History.** A Rebooting orphan is Completed without a look at the boot id
  (`manager.rs:34`); a self-update orphan is Completed although the process may
  have died before the package was installed (`scheduler.rs:1190`); the migration
  removes the old file even if the write failed (`persistence.rs:170`);
  `admit_job` and the watchdog do not persist (`scheduler.rs:210`).
  `ARCHITECTURE.md:243` says failed jobs "are cleared on service restart (no
  persistence)", which the history file contradicts.
* **Backends.** APT wraps its errors, so its fetch retry never happens. `run`
  without a timeout (`dnf list_patches`) can wait for ever. pacman's lock is
  removed after 60 s, and after a timeout, while its owner may live: `OneWriter`
  leaves pacman out, and Debian hosts without `pgrep`. A pacman killed at its
  deadline that still exits 0 counts as success. Descendants of a leader that
  obeyed SIGTERM get no SIGKILL. Output that is not collected in time counts as
  empty.
* **Events.** `websocket.rs:6` says "Filters events based on client
  subscribe/unsubscribe messages", and `API_SPEC.md:643` describes subscriptions by
  job. The code withholds nothing: `subscribed_all` is set when the actor is created
  (`websocket.rs:186`) and no message clears it, so every client gets the events of
  every job. `EventsAccounted` and `EventsArrive` are stated so that they do not
  depend on it.
  "Actor is dead, stop listening" is also the reaction to a full mailbox.
* **Access.** `refresh_crl` has no HTTP timeout. Open connections outlive a
  revocation (the check is at the handshake). An older list that verifies is taken
  (no `crlNumber` check). Missing and Degraded let everybody with a valid
  certificate in, so an unreadable file drops known revocations. A CA renewed under
  the running server makes the next list Invalid until a restart. `rate_limit.rs:3`
  documents "per-IP rate limiting" of "20 req/min, burst 10", but `new_transform`
  builds new limiters for each worker and `main.rs:448` asks for four, so an address
  whose connections land on all of them gets up to four times that;
  `DestructiveBound` is the bound of one worker. `NonZeroU32::new(..).unwrap()`
  makes a configured rate or burst of 0 a panic, not a refusal. The comment on the
  order of the middleware in `main.rs` does not match actix, where the last wrap
  runs first. The watcher of the allow list only logs (`whitelist.rs:385`).
* **Enrollment.** The configuration is written in place: a death tears it. A
  temporary file left behind blocks every later `create_new` of certificates and
  allow list. A denied token stays saved and is resumed, although a log line
  promises "re-registration on next start"; the same holds of a token the manager
  answers `not_found` (`SPEC.md:246`, "Token expired/purged — abort"), so each start
  aborts until somebody edits the configuration. On 409 "The caller should skip to
  polling phase with existing token" (`client.rs:422`, `enroll/mod.rs:54`,
  `SPEC.md:183`), but `register` returns an error, the caller has no token at that
  point, and the process ends: a host the manager knows that has lost its token, or
  whose certificate expired after its token was cleared, cannot enroll if the
  manager answers 409. `SPEC.md:248` says "HTTP 404/429 terminate immediately" and
  `DEPLOYMENT_GUIDE.md:462` "Aborts on HTTP 403/404", but `poll_for_approval`
  retries every error of `poll_status`, those included (`AskAgain`). `SPEC.md:194`
  gives exit code 1 for a failed enrollment, the code 2; both are failures to
  systemd. Polling for approval may take a day, but the unit is `Type=notify` with
  `TimeoutStartSec=60s` and gets ready after enrollment (`main.rs:637`), so systemd
  ends each start that waits longer, and the next one resumes the saved token.
  `append_entry` "Creates the file if it doesn't exist", but loading the list before
  it fails. After certificates are complete the next start does not enroll, so an
  allow-list entry that was not written stays missing. A bundle of a new CA without
  a list leaves the old list, and the start is refused. `validate_certs` compares
  names of issuers only. An administrator's run beside the service may clear the
  service's token and mix bundles.
* **Repository.** On apt the installed keyring is binary and never equals the
  armored key, so every sync provisions again (the doc says "Idempotent"). Without
  gpg only the `.asc` file is written and the host stays degraded. On Alpine lines
  of an older URL stay; a repositories file that cannot be read counts as empty
  and is overwritten. Here too the backoff is followed by the whole interval. The
  documented pre-check of the self-update has no caller.

## Not modelled

Request validation, read-only endpoints and response bodies; messages, logs,
progress, timestamps (except the order of creation) and command diagnostics of a
job; the parsing of package-manager output beyond what distinguishes errors; service
status, reboot detection and `apt-mark showhold`; certificate parsing and signature
arithmetic; host identity; settings read once at startup; routing. The exit of the
process after SIGTERM in `Scheduler` (`JobHistory` has deaths at any point). An
administrator's own package manager between the look for a process and the removal
of its lock. Mutex poisoning. The expiry of the signing key as gpg reports it. A
manager that answers one registration with a token of another host. That the
repository configuration the manager serves matches the host's distribution is
assumed of the manager.

`Cancelled` is reached only by recovery, `TimedOut` by nothing in the service.
`update_job` and the allow list's `reload` have no caller, and `run_mutation`,
`try_run_mutation`, `start_job` and `wait_and_start_job` exist only in test
builds. Writes of one file are one step where a death in the middle leaves only
a temporary file.

## Plan

Done: the modules above with their runs, a theorem for every safety property and
every refinement that a run checks (but for `AlwaysAdvances`, see above).

Worth adding when the code changes there:

1. An abstract specification of the history file, a map that is replaced at once,
   and a proof that `JobHistory` implements it if persist calls do not overlap.
2. An abstract specification of a client's feed, in order and with gaps, for
   `JobEvents`.
3. Host identity and the parsing of package-manager output, once more than one
   outcome of theirs matters to the rest.
