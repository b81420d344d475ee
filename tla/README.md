# SuperTask in TLA+

TLA+ models of the SuperTask queue, its Worker, Watchdog, Scheduler and Gateway, and of
the commands that install, upgrade, stop and maintain them under PM2; TLC
configurations that check them on small instances, and TLAPS proofs for every instance of what queue, Scheduler,
Gateway lock, management commands, deployment and maintenance promise. Paths are relative to the repository.

    tlc -config TaskQueue_chains.cfg MCTaskQueue      # a run
    tlapm TaskQueueProofs.tla                         # the proofs

## The system

SuperTask is a durable task queue for one machine. Clients (plugin, CLI,
Dashboard) and one Gateway process share a SQLite file. The Gateway claims
tasks, runs each in a process group of its own under a launcher, and writes
back what came of it. Nobody but SQLite serialises clients and Gateway, and the
Gateway is itself an event loop in which a dispatch loop, the settlement of each
execution, a Watchdog, a Scheduler and a shutdown interleave at every `await`.

| Part (source) | State | Operations | Interacts with | Hard about it | Correct when |
|---|---|---|---|---|---|
| Task store (`core/services/task.service.ts`, `task-run.service.ts`) | `tasks`, `task_runs` | add, update, cancel, retry, retryBatch, delete, cleanup; claimNext, create, completeRun, failRun, recoverRun, interruptRun, resets, resolveBlocked | every other part calls it | guards that must agree with one another across some twenty transactions | batches serial, one open run per task, final states final, no waiting task whose dependency can never be done, budgets kept |
| Gateway (`gateway/index.ts`) | lock row, ready mark, the loops | start, ready, shutdown, crash | starts and stops the loops; PM2 restarts it | a stop or crash at any await | what is left behind is picked up by the next one |
| Worker (`worker/index.ts`) | `runningTasks`, `activeBatchIds`, stopped flag, poll cycle | poll, reconcile, claim, spawn, settle, terminate, stop | store, launchers by pipe, IPC and signals | claim and run are two transactions; kill, exit, timeout and cancel race | a run is closed once and only after its processes are gone; slots and batches neither leak nor are freed early |
| Launcher (`worker/launcher.ts`) | START gate, its tree | wait, spawn, watch the group, prove drainage | Worker, operating system | pipe, exit and proof arrive in any order or not at all | OpenCode runs only once registered; its proof is not sent early |
| Watchdog (`gateway/watchdog/`) | a list of stale runs | check, kill, recover, clean up | store, Worker (`ownsRun`), operating system | works on an old list; pids are reused | takes only what nobody owns, and what is certainly dead |
| Scheduler and templates (`gateway/scheduler/`, `task-template.service.ts`) | `task_templates`, sweep cursor | due, clone, skip, enable, disable, edit | store | sweep against edit; slots under delay | one task per slot, at most `maxInstances` |
| Gateway lock (`gateway/index.ts:41`) | `gateway_lock` | acquire, heartbeat, ready, release | a second Gateway, PM2, maintenance, plugin | stale heartbeat of a live process, a long shutdown, reused pids | one Gateway |
| Database maintenance (`database-maintenance.service.ts`) | files, all tables | backup, clear, restore | Gateway, PM2 | the Gateway between look and stop, and the stop hides what ran | nothing in flight is lost, and nothing without a backup |
| PM2 adapter, management locks (`daemon/pm2.ts`, `daemon/management-locks.ts`) | PM2's process list and dump, lock files of two releases, LaunchAgent, version file | install, uninstall, upgrade, ensure, stop, restart | PM2, launchd, other commands, the Gateway that ends or starts | each step may fail half way, or work although it failed | one command at a time; what is reported is what is left; a failure is undone |
| Supervisor (`daemon/pm2-supervisor.ts`) | | look, resurrect | PM2, the locks | a Gateway gone on purpose looks like one that was lost | resurrects what is lost, and only that |
| Self update (`daemon/update.ts`, `cli/index.ts:upgrade`) | installed packages, OpenCode's configuration | plugin and Gateway to one release | PM2 adapter, OpenCode | plugin first, Gateway later, either may fail | both at one release, or both back |
| Dashboard, CLI, plugin | caches | client operations, diagnostics; the plugin starts a Gateway | store, PM2 adapter | stale forms and caches; an old plugin | see the store; no downgrade |
| Configuration, OpenCode adapters, cron, durations | one file each | parsing, external commands | | | unit-testable |

`PROJECT.json` lists every component with its status, and under `hazards` what
in this code is hard to test, line by line, with the property that covers it.

## Modules

    TaskStore          the tables, one operator per transaction
      TaskQueue        clients, one Gateway, the claim in two steps: what the queue promises
        TaskQueueProofs   its invariants, proved
          QueueHistoryProofs  what a step may not do to a row, and databases of earlier releases, proved
        MCTaskQueue       instances for TLC
        Scheduler      templates, their clients, sweep and clones, a clock, beside the queue
          SchedulerProofs its theorems, proved, on top of QueueHistoryProofs
          MCScheduler     instances for TLC
      Execution        Worker, process groups, Watchdog, shutdown; refines TaskQueue
        ExecutionProofs   its invariants and the refinement, proved
        MCExecution       instances for TLC

    GatewayLock        processes and the row that lets one Gateway work
      GatewayLockProofs   one Gateway, proved
      Pm2              PM2, the supervisor, the locks of the commands
        Deployment     install, uninstall, upgrade, ensure, and what they undo
        Maintenance    clear and restore, and the database they work on
          Management   all of them together
            ManagementProofs     one Gateway and one command at a time, proved
              MaintenanceProofs  what clear and restore promise, proved
                DeploymentProofs what install, upgrade and ensure report, proved
            MCManagement  instances for TLC

The upper tree takes one Gateway at a time for granted; the lower one shows why that is so, and looks at the
queue only as far as maintenance does (are there rows, which ids did runs get, is one open).

### TaskStore

`tasks` and `runs` are functions from the ids in use to rows; `nextTask` and
`nextRun` are the autoincrement counters. A row has what the guards look at:
status, retryCount, maxRetries, dependency, batch, project (`cwd`), priority,
`wait` (retryAfter lies in the future) and `finished` (finishedAt is set). Every
transaction of `TaskService` and `TaskRunService` is one operator, atomic as
`BEGIN IMMEDIATE` makes it. The recursive SQL query that finds the blocked
dependents of a task is `Downstream`, the least set of waiting tasks closed under
"depends on"; it is defined by quantifying over sets, which a proof can use. Time is
abstracted: a backoff elapses at any moment (`BackoffElapses`), and the retention
cleanup takes any set of tasks its guards allow. Bounds: `MaxTasks`, `MaxRuns`.

### TaskQueue

The Gateway is down, starting, up or stopping; the dispatch loop is idle, looks
(`countRunning`), has seen a slot, or has claimed. Clients act between any two
steps. How an execution ends is left open: any open run may be completed, failed
or recovered. So it is the abstract specification of everything that executes.

### Execution

One action is what the event loop does without waiting for another process or a
timer; a transaction another process may delay or refuse ends an action.
Settling an entry (`commitEntryWithRetry`) and removing it from `runningTasks` are
microtasks of one event, hence one action (`Commit`); so are creating a run and
registering its launcher.

| TLA+ | Code |
|---|---|
| `phase`, `claim`, `batch`, `cur`, `left` | the position in `tryDispatch`, `spawnTask` and the reconciliations |
| `runningTasks[r]` | the entry: `termination` (`term`), `terminationPromise` (`kill`), `quarantined`, `guardianDrained` (`drained`), the child's exit (`closed`), `settled` and the outcome (`settle`) |
| `group[r]` | the process group of a run, external: `gate` (waits for START), `told`, `work`, `drained` (tree gone, proof sent), `loose` (tree without launcher), `killed` (SIGKILL sent), `gone` |
| `childPid`, `protocol` | the columns of `task_runs` |
| `todo`, `dying` | the list of `checkHeartbeats` and the group whose end it awaits |
| `halt`, `interrupted` | the progress of `Worker.stop` and of the shutdown after it |
| `Terminate`, `Strike`, `KillSucceeds`, `KillEscalates`, `KillFails` | `terminateEntry`, `killEntry` |
| `ChildClose`, `DrainProof`, `Timeout`, `Commit`, `GiveUp` | `handleChildClose`, the IPC listener, the timer, `commitEntryWithRetry` |

Left to the environment: a signal may be refused, a probe may be inconclusive, a
commit may be refused any number of times, any open run may look stale, START may
be reported lost although it arrives.

### Scheduler

Everything of `TaskQueue`, and beside it the templates, the Scheduler and a clock. A
step of the queue (`Queue`) also starts and forgets the Scheduler with the Gateway's
process (`Beside`); all other steps leave the queue alone or add one task to it.

| TLA+ | Code |
|---|---|
| `templates`, `nextTemplate` | `task_templates`: `plan` (scheduleType with interval, cron or runAt), `job` (the columns handed to a clone), `cap` (maxInstances), `enabled`, `next` (nextRunAt), `ran` (lastRunAt is set) |
| `origin[t]` | `templateId` and `scheduledAt` of a task, and which operation created it |
| `sched`, `upto` | `Scheduler.start`: off, in `initializeTemplates` behind id `upto`, on |
| `sweep`, `todo`, `at` | `dueSweep`, the page read by the tick in progress, the `nowMs` of the clone to come |
| `ReadDue`, `CloneTask`, `SkipSlot`, `PassOver` | `tick`: `getDueTemplates`, then per template `createTaskFromTemplate`: cloned; capped; not as read any more, or failed |
| `CreateTemplate` ... `TriggerTemplate`, `PurgeDelayed` | `TaskTemplateService`, `triggerTaskFromTemplate`, `deleteExpiredDelayed` |
| `NextRunAfterScheduledSlot`, `CalculateNextRunAt`, `EnabledSlot` | the methods of these names; the choice in `enable` |

Numbers are times and 0 is NULL. A cron expression is the distance of the points in time it
names, or 0 for one that names none; the cron library is external. The clock never goes back. The page is a
snapshot, and clients in other processes may commit between any two clones of a tick. The Gateway's own
loops may do so too in the model, save between a claim and its run; in the code a tick gives way to microtasks
only, so the model allows more than the code.
`deleteExpiredDelayed` takes templates of any age. A Gateway with `scheduler.enabled` false
is the queue alone. Bounds: `MaxTemplates`, `MaxTime`.

### GatewayLock

A pid runs nothing, a foreign program, a Gateway of another database, or a Gateway of this one in
one of its stages: `boot` (before `acquireLock`), `starting`, `up`, `stopping` (signal handled,
heartbeat timer cleared, executions may take their grace period), `leaving` (lock released).

| TLA+ | Code |
|---|---|
| `lock` | the row: pid, `heartbeatAt` not older than 30 s (`fresh`), `readyAt` set and its version |
| `Refuses`, `AcquireLock`, `ExitWithoutLock` | `acquireLock`, one transaction |
| `IdentifyGatewayProcess` | the function of this name: what `ps` says, which may be nothing |
| `UpdateLockHeartbeat`, `MarkGatewayReady`, `BeginShutdown`, `ReleaseLock` | the functions of these names and `shutdown` |
| `ForgetLock` | the deletion of the row by `restore` |

`Age` may happen at any moment, so that a suspended or overloaded owner is included; a pid that became
free may be any other process's at once.

### Pm2

| TLA+ | Code |
|---|---|
| `entry` | PM2's entry `supertask-gateway`: what it runs (`app`), its status and pid; `stopping`, `deleting`, `restarting` while the process has not ended |
| `dump` | the file `pm2 save` writes |
| `Reap`, `Restart`, `GiveUp` | PM2: the process has ended; after `restart_delay`; `max_restarts` is reached. External, as used by `pm2.ts` |
| `Call` | a call of the `pm2` command: it works, or it fails with or without an effect (`runPm2`, timeouts included) |
| `locks`, `TakeLock`, `FindsBusy` | `withManagementLocks`, `SavedManagementLockPaths` |
| `agent`, `plist`, `sup`, `Supervise`, `Resurrect` | the LaunchAgent and `superviseOnce`; an `old` agent runs the supervisor of a release that knows the `legacy` lock only |
| `Strikes`, `Killed`, `Reboot` | the environment, at most `MaxFaults` times: crash, signal, Gateway started by hand, reused pid, killed command, power failure |

### Deployment

A command is a record in `client`: `pc` is its position, the other fields are its local variables.

| TLA+ | Code |
|---|---|
| `Check`, `Delete`, `Start`, `Look`, `WaitForGatewayReady`, `CheckVersion`, `SavePm2State`, `WriteRunningVersion` | the body of `install`, `upgrade` and `ensureGateway`, in this order |
| `Clean`, `Cleaned`, `GoBack`, then `Start` ... with `back` | `rollbackFailedGatewayStart` |
| `WriteAgent`, `Bootstrap`, `RollbackAgent`, `RemoveAgent` | `installMacLaunchAgent`, `uninstall` |
| `told` | whether `gatewayVersionFromLock` found a release to compare |
| `Request` of a plugin | `shouldAttemptGatewayReplacement` and the checks before it in `plugin/supertask.ts` |
| `UpgradePlugin`, `RollbackPlugin` | `upgrade` of `cli/index.ts` |
| `report` | what the command tells its user, by which the properties hold it to account |

`Refuse` stands for the checks that only look: paths, environments, scopes, versions of pm2, work in flight.

### Maintenance

| TLA+ | Code |
|---|---|
| `rows`, `last`, `seq`, `open` | the tasks; `max(task_runs.id)`; `sqlite_sequence`; a running task with its run |
| `cut` | no state of the program: PM2's stop has interrupted a run since the command looked |
| `writer`, `snapshot` | the exclusive transaction; the safety backup written in it |
| `AssertIdleBeforeGatewayStop` ... `AssertNoRunsStartedSince` | `withGatewayMaintenance`, `stopGatewayForMaintenance` |
| `LookFirst`, `Begin`, `Commit`, `Rollback`, `DashboardClear` | `clear` and `restore` |
| `Revive`, `Watch`, `Await` | the restart by `withGatewayMaintenance` |

`Management` puts the modules side by side: a step is one of a command, of PM2 or the supervisor, of
a Gateway (`GatewayAndOthers`, which ties the end of a shutdown to the run it interrupts), of the
database, or a kill.

### Faults

Definitions whose name starts with `Faulty`, `Rash` or `No` before the name of another
(`FaultyAbsent`, `RashAbsent`, `NoOrphans`, `NoRollback`, `NoQuestion`, `NoUndo`), and `DriftingSlot`, `RepeatedSlot`,
`ForgetfulSweep`, `HastyRefuses`, `CanonicalOnly`, `AnyRelease`, `ForgottenAgent`, `UncheckedBegin`, `StaleBegin` and `LostOnly`
are not part of a model: each is a plausible bug in the definition that follows it, kept to show
that the properties notice it.

## Runs

All runs end with every reachable state visited, save the two that stop at the disagreement they show. Sizes are distinct states.

| Run | Instance | Shows |
|---|---|---|
| `TaskQueue_chains` (1.6 M) | 3 tasks, 2 runs, 2 slots, budgets 0 and 1 | `TypeOK`, `NoStrandedTask`, `DependencyFirst`, `DependencyKept`, `WithinBudget`, `ConcurrencyCap` |
| `TaskQueue_drains` (0.57 M) | 2 tasks, 4 runs, 2 slots, 1 batch, fairness | `BatchSerial`, `OneOpenRun`, `Final`, `NoRowLostInFlight`, `Drains` |
| `TaskQueue_legacy` (0.25 M) | every database of 3 tasks an earlier release may leave, 2 projects | `RepairedOnStart` |
| `TaskQueue_undated` | 1 task | a disagreement, see Findings |
| `Execution_groups` (3.8 M) | 2 tasks, same batch or none, 2 slots, 2 runs; or 1 task, 3 runs, all clients, from an empty database or from a run of another release under any protocol | `TypeOK`, `ExecutionsSerial`, `EntryOwnsOpenRun`, `BatchesHeld`, `ClosedMeansGone`, `Findable`, `NoBlindSignal` |
| `Execution_refines` (0.47 M) | 2 tasks, 2 runs, 1 slot, all clients | `ProcessCap`; `Refines`: every behaviour is one of `TaskQueue` |
| `Execution_ends` (9 k) | 1 task, 1 run, fairness | `ShutdownEnds`, `RunsEnd` |
| `Scheduler_catalogue` (1.1 M) | 1 template of any plan, 3 tasks, times to 5, any edits; or 1 template, 2 tasks, 2 runs, times to 2, everybody | `SchedTypeOK`, `InstancesCapped`, `NeverEarly`, `SlotsIncrease`, `NoGhosts`, `PhaseKept`; `QueueKept`: every behaviour is one of `TaskQueue` |
| `Scheduler_turns` (0.26 M) | 3 stored templates due at once, pages of 1, fairness | `SweepShrinks`, `TakesTurns` |
| `Management` (2.5 M) | 2 pids, 2 releases, an operator and a plugin, 1 fault; from nothing, or a Gateway of an earlier release at work | `OneGateway`, `ManagedByOne`, `SuccessAgrees`, `FailureUndone`, `MaintenanceAlone`, `LossIsBackedUp`, `GatewayComesBack` |
| `Management_recovery` (1.2 M) | 2 pids, 1 release, an operator and a plugin, 2 faults, fairness | `Recovers` |
| `Management_downgrade` | a Gateway of release 2 and a plugin of release 1 | a disagreement, see Findings |

Why the bounds are enough to matter. Batch and slot conflicts need two tasks, a
chain with something in the middle three; a retry, a recovery and a re-execution
beside a leftover need two runs of one task, and a third run lets the task be
tried after both. Two slots let two tasks of a batch meet; fewer slots than tasks let the cap
bind. Each property also fails when one definition of its model is replaced by
the faulty variant beside it, on the same instance: the instances are large enough to see
such bugs. `Execution_groups` has two kinds of behaviours. With two tasks, they are queued at the start and of
the clients' operations only the one that reaches a task in execution is left (cancel); with one task, as in `Execution_refines`
with two, clients do all they can. A Worker has one entry per run, so one run is enough for a shutdown
to find it in any state an entry can be in (`Execution_ends`). Ids are never reused, so each bound on ids
also ends the behaviours; in the runs of the queue deadlock checking stays on, as a Gateway can always crash and start again.

For a slot served twice it takes a template, its clone, and an edit, a restart or a delay of more than
one interval in between: an interval of 2 and a clock to 5 have room for a late slot, one left out
and the next. `Scheduler_catalogue` has two kinds of behaviours as well (`mode`): those that go through plans and
times start without templates or with one an earlier release stored
without a slot, and leave tasks where they are; those with a queue at work have less of everything.
`InstancesCapped` needs a task cancelled with its run open beside the next slot, hence two tasks and
two runs; retrying a dead letter by hand and lowering `maxInstances` below what already exists are the
user's decisions and not part of that run (`Revives`, `LowersCap`). `TakesTurns` needs a full page with a template behind it.

For a lock to be taken wrongly it takes two processes and one pid used again, hence two pids (a
third would only be a second bystander). Two releases are an upgrade and a
downgrade. Each behaviour of `Management` has a plan (`AllPlans`): install and remove, upgrade, install files that are not
what they say, or maintain; the plugin may start or replace a Gateway in each of them. One fault at any of the steps of a command
meets the failure of each step; a failure in the way back needs two, and the same properties hold in the 0.2 M states of
an operator alone with the first plan and `MaxFaults = 2`. Recovery needs two: the supervisor fails as the Gateway
does. There is one operator and one plugin, so that no two upgrades meet (see Not modelled), and an upgrade starts from
an installed Gateway. One task and one run suffice for the look, the stop and the
comparison of ids: what matters is whether a run began in between. Commands, faults and runs are bounded and nothing has to go
on when nobody asks for anything, so these runs allow a state to be the last (`CHECK_DEADLOCK FALSE`).

### Fairness

`Drains` assumes that the Gateway starts when it is down, ends a shutdown and goes on
polling, that backoffs elapse, and that executions end (each has a time limit).
The claim and the look before it are strongly fair: a poll may find the database busy
or `opencode --version` unreadable, though not for ever. Interventions for
ever (clients, stops, crashes) and an exhausted supply of runs are exempt.

`ShutdownEnds` assumes only the event loop: timers fire, awaited promises are
looked at. It assumes neither that a commit succeeds nor that a process dies.
The order of the shutdown (poll cycle, grace, terminations, requeueing) bounds it.

`RunsEnd` states the fairness it needs itself (`RecoveryFairness`): it assumes further that SIGKILL ends a group, that an exit is noticed, that
a task has a time limit (`worker.taskTimeoutMs` of 0 would switch it off), and that
signals, commits, checks and recoveries refused again and again succeed once. Exempt: a Gateway that is
stopped or killed for ever again, and a tree whose launcher was lost, which the
code leaves in quarantine on purpose as nothing identifies it.

`Recovers` assumes that a Gateway that was started goes on, that PM2 notices the end of its process and restarts it after
`restart_delay`, and that the supervisor looks again and again. It does not assume that a command ever
ends, and exempts what nothing in the code could undo (`Excused`): nothing was saved or the supervisor is not
loaded; PM2 was told to stop the Gateway, or gave up restarting it; a command holds its lock; the lock row
names a live foreign process whose identity cannot be told.

`TakesTurns` assumes that the event loop goes on and that a Gateway that is down is started; it does not
assume that time passes or that a clone succeeds. Clients and stops for ever are exempt.

## Proofs

`TaskQueueProofs` proves, for every number of tasks, runs, slots, batches and projects:

| Theorem | |
|---|---|
| `TypeCorrect` | `TypeOK` |
| `BatchesSerial` | `BatchSerial` |
| `SlotsCapped` | `ConcurrencyCap` |
| `RunsUnique` | `OneOpenRun` |
| `NothingStranded` | `NoStrandedTask` |
| `InOrder` | `DependencyFirst` |
| `BudgetKept` | `WithinBudget` |

They rest on the assumptions `StoreConstants` and `ConcurrencyAssumption`, which
only say what the constants are.

None of the invariants is inductive alone. `NoStrandedTask` needs `DependencyFirst` and
the order of ids, the cap needs to know what a claim in progress means, and the
single open run needs to know that a running task without a run is the claimed
one or an orphan. `IInv` (theorem `Invariance`) collects them in four groups:

- `DbOK(tasks)`: dependencies, project, order and budget, a predicate of the table
  alone. Each transaction is shown to preserve it by one of a few lemmas: `DownstreamClosed` (a
  cascade takes all the waiting dependents of what it takes), `LiveStep` and
  `LiveRow` (rows that stay live), `BuryOK` and `EndStep` (a task ended with its dependents),
  `CountedStep` (a failure counted). A cleanup and a delete leave what a waiting task needs.
- `RunsOK`: what an open run says of its task. Settling a run closes it.
- `ClaimOK`: a claimed task has no run yet; what else may have become of it.
- `SlotOK`, `BatchSerial`, `ConcurrencyCap`: in phase `slot` there is room for one more.

Most steps are quiet for the last three: they occupy nothing new. Lemma
`Quiet`/`Frame` disposes of them, and only the look, the claim (`DispatchInv`) and the
creation of a run (`StartRunInv`) have proofs of their own. `InvNext` puts the
actions together.

`SchedulerProofs` proves, for every number of templates and tasks, every plan, page size and length of time:

| Theorem | |
|---|---|
| `SchedTypeCorrect` | `SchedTypeOK` |
| `KeepsQueue` | `QueueKept`: the theorems above hold with the Scheduler at work |
| `NoTaskEarly` | `NeverEarly` |
| `SlotsServedOnce` | `SlotsIncrease` |
| `NothingForgotten` | `NoGhosts`, starting from any stored templates (`UpgradedSpec`) |
| `SweepsEnd` | `SweepShrinks` |
| `PhaseIsKept` | `PhaseKept` |
| `InstancesStayCapped` | `InstancesCapped`, from any stored templates, as long as no step `Revives` or `LowersCap` |

`KeepsQueue` is a refinement with the identity as mapping (`StepKept`: a clone is a client's `Add`, a
step of the queue is one, all else stutters). The invariant behind the others is `SInv`, together with `IInv`: a slot that was
read lies in the past and a sweep's cutoff before the clone that follows it (`ClockOK`); ids of templates are never
used again (`KnownOK`), so that a new template inherits no slots; the next slot of a repeating template is later than all
it was served for (`AheadOK`), which makes `SlotsIncrease` inductive; and an enabled template without a
slot is one `initializeTemplates` has still to reach (`DatedOK`). Each edit of a row either calculates the slot
from the current time or does not put it back (`Rewritten`), so one lemma (`RewriteStep`) serves all of them. `InstancesStayCapped` counts the
tasks in use: a clone adds one and only where there is room, and any other step adds none, because a task that is over stays so
unless somebody retries it. A cancelled task whose run is open counts too, so this rests on the invariant of the queue and on
what its steps may not do (`SchedHistoryInvariance`). Its hypothesis names the two decisions of users that
`maxInstances` does not govern; a dead letter that is retried, by hand or with its batch, is not counted again. What
`CalculateNextRunAt` and `NextRunAfterScheduledSlot` return is stated in `CalculatedSlot`, `FollowingSlot` and
`PhaseOfSlot`. `SchedulerConstants` says what the constants are.

`QueueHistoryProofs` proves of `TaskQueue` what its steps may not do:

| Theorem | |
|---|---|
| `DependenciesKept` | `DependencyKept` |
| `FinalIsFinal` | `Final` |
| `InFlightKept` | `NoRowLostInFlight` |
| `Repaired` | `RepairedOnStart`, from any database of `StoredDatabase` |
| `StoredInOrder` | `DependencyFirst`, from any of them |

Lemma `StepKind` goes through the actions once: a step rewrites rows so that what was over stays as it
is (`Steady`), or removes tasks nobody waits for and that have no open run (`Removes`). `Final` needs to know
besides that a row that is over has no backoff that could elapse (`OverAtRest`).

`Repaired` starts from what an earlier release may have left (`StoredDatabase`): any rows and runs of the right types, budgets, statuses and
dependencies on what is missing, cancelled or of another project, so that `IInv` does not hold. One thing is assumed of it:
what is recorded as running has its dependency done and in its project, as the claim asks (`claimNext`). Without that a run left open could be recovered
long after the start and put a task back that waits for nothing that will come. `RInv` is that
`DependencyFirst` stays so, and that no waiting task is stranded once a Gateway has started: `resolveBlockedTasks` runs at the
start and closes the set of what cannot run, and from then on each transaction leaves what a waiting task needs.

`ExecutionProofs` proves, for every number of tasks, runs, slots, batches and projects, and of a Gateway that finds
whatever an earlier one, of this release or an older one, may have left (`LaterSpec`; `SpecIsLater`: an empty database is a case):

| Theorem | |
|---|---|
| `TypeCorrect` | `TypeOK` |
| `ClosedIsGone` | `ClosedMeansGone` |
| `AlwaysFindable` | `Findable` |
| `SignalsIdentified` | `NoBlindSignal` |
| `EntriesOwn` | `EntryOwnsOpenRun` |
| `BatchesAccounted` | `BatchesHeld` |
| `Serial` | `ExecutionsSerial` |
| `ProcessesCapped` | `ProcessCap` |
| `Implements` | `Refines`: from an empty database, every behaviour is one of `TaskQueue` |

The invariant (`EInv`, theorem `Invariance`) is that of the queue, which `QueueHistoryProofs` keeps as soon as a step is known to be
one of the queue (`Simulation`), and `MInv` about memory and processes. The two need each other: a step is one of the queue because an
entry's run is open, and the run stays open because the queue opens and settles rows as it does. The parts of `MInv`:

- `GroupsOK`: a group that works belongs to an open run and, if a launcher leads it, to a recorded pid. This is the promise; the rest keeps it.
- `EntriesOK`: what an entry believes of its group is so. An outcome is settled only of a group that is gone; a proof of drainage, an exit or
  SIGKILL each exclude the groups that could still start OpenCode.
- `LoopOK`: the run being started is the loop's alone until it has an entry, and its pid is recorded before START.
- `WatchOK`: what the Watchdog read of a run, perhaps long ago, is enough to judge it by: a run listed without a pid that has one now is in
  the Worker's hands or closed.
- `HaltOK`: the shutdown hands back only runs seen gone. `FreshOK`: ids not given out have no processes. `BatchesOK`: no two entries hold one batch.

A step is first reduced to what it does to the tables (`Tables`), then one of four lemmas applies: beside the loop and the entries
(`AsideKeeps`), processes of their own accord (`BecomesKeeps`), an entry with its group (`TouchKeeps`), the loop (`LoopKeeps`). Only
the creation of a run, its spawning, the pid, START, the forgetting of an entry, the shutdown and the Watchdog have proofs of their own.
`ProcessesCapped` is an injection of the groups at work into the tasks that occupy a slot.

`GatewayLockProofs` proves `OnlyOneGateway` (`OneGateway`) of the lock alone, with processes that come and go as they like.
`Owned` is inductive: whoever works is named by the row, however old its heartbeat is, because a row that names a process
which may be this Gateway's is never taken over (`StepLock`).

`ManagementProofs` and `MaintenanceProofs` prove, for every number of processes, releases, commands, tasks, runs and faults:

| Theorem | |
|---|---|
| `TypeCorrect` | `TypeOK` |
| `NeverTwoGateways` | `OneGateway`, beside PM2, the supervisor and all commands |
| `NeverManagedByTwo` | `ManagedByOne` |
| `AlwaysMaintainedAlone` | `MaintenanceAlone` |
| `GatewayAlwaysComesBack` | `GatewayComesBack` |
| `NothingLost` | `LossIsBackedUp` |

`MInv` has two parts. `World` is the invariant of the lock, which every step of PM2 keeps. `Held` is about the locks
of the commands: who is inside holds what it asked for (`HoldsThem`); it asked for the lock of the earlier release
unless no supervisor of that release runs or can come back (`AsksRight`, `NoOld`); such a supervisor
has its file on disk, also after a failed installation has put the previous one back (`AgentHasFile`); and a
supervisor about to resurrect holds its own locks (`WatchHolds`). Most steps of a command are `Calm`: they
touch neither locks nor agent. A command counts as inside until it has freed its locks (`Inside`), so that lemma
`InsideAlone` also covers the moment of its report.

`GInv` adds what a command that maintains may rely on at each stage (`Seen`): the ids it compares bound every run that was open
or cut off since it looked; the entry stays stopped as long as the operation lasts, and running once it was started again. It is
kept by the command itself (`UpkeepSeen`), by the other commands because they are outside (`OthersUpheld`), and by
all else because the world only does what `Env` allows (`DaemonEnv`, `WorkEnv`). In the
transaction `Alone` holds: a Gateway would have to write the lock row to begin (`NobodyBegins`).
The assumptions are `LockConstants`, `Pm2Constants`, `DeploymentConstants` and `MaintenanceConstants`.

`DeploymentProofs` proves, for every number of processes, releases, commands and faults:

| Theorem | |
|---|---|
| `AlwaysInstalled` | a report of success: PM2 runs what was asked for and goes on to, its dump and the version file say so |
| `AlwaysRestored` | a report of having gone back: `GatewayRestored` and `AgentRestored` |
| `FailureAlwaysUndone` | `FailureUndone`, if there is `OneUpgrade` at a time |
| `ReleaseTold` | the lock row tells the release of the Gateway PM2 runs, if `PidsFresh` |
| `SuccessAlwaysAgrees` | `SuccessAgrees`, if both |

`DInv` is `MInv` with what a command has achieved stage by stage (`Placed`) and which commands can be at a stage (`Fits`). What is
achieved stays: PM2 may restart, give up or miss the end of a Gateway, but neither it nor the supervisor takes an entry away that
is listed (`DaemonUnmoved`), and the other commands are outside (`OutsideUnmoved`), where the locks keep them until this one
has reported. `TInv` follows the release of a process into the row: an owner writes the release it was
started from (`SpeaksOn`), a step of anybody keeps the process of the entry, takes it away or starts another (`Carries`), so a Gateway
whose row told the command the release asked for was started from files of that release (`Agreed`). `UInv` is about the plugin.

Neither hypothesis can be left out.

- `OneUpgrade`: the plugin is installed and put back outside the locks (`cli/index.ts:856`), so that the second of two upgrades
  may take away the plugin of the first. The locks do not see it (Not modelled).
- `PidsFresh`: `isGatewayReady` (`pm2.ts:880`) compares pid, `readyAt` and heartbeat. When a Gateway is killed, its row says ready for
  another 30 s; a Gateway that PM2 starts under the same pid within that time is taken for ready, and the row's version for its own, before it has begun. TLC
  finds it with one operator and `MaxFaults = 2`, in a behaviour in which the files are not what their package says. Systems hand out
  pids in turn, so it takes a wrap-around within those seconds. `PidsFresh` says just that a Gateway is not
  given the pid of one whose release the row tells or a command asks about; it does not restrict what other programs get.

The theorems without hypotheses hold in spite of both.

Every safety property of a run is stated by a theorem. Out of the prover's reach and left to TLC: liveness under fairness (`Drains`, `ShutdownEnds`, `RunsEnd`, `TakesTurns`,
`Recovers`).

## Findings

`TaskQueue_undated`: lowering the budget of a task that the Watchdog has recovered to
pending turns it into a dead letter without `finishedAt` (`task.service.ts:198-218`;
`recoverRun` has cleared the column). `deleteOlderThan` asks for `finished_at IS
NOT NULL`, so such a task is never purged. Every other way into `dead_letter` sets the column,
and `tests/task-service.test.ts:1260` expects it.

`Management_downgrade`: a comment in `plugin/supertask.ts:66-67` says that a plugin never replaces a later Gateway, as the lock
tells the Gateway's release also while it restarts. A Gateway that shuts down deletes its row (`gateway/index.ts:100-104`), and one that
has just begun has a row without a version (`gateway/index.ts:79`): a plugin of an earlier release that looks in between
reads no version and calls `ensureGateway`, which replaces whatever is not of its own release.

Without a run: `docs/architecture.md:144` derives the next time of a recurring template from the time
of the clone. `nextRunAfterScheduledSlot` (`task-template.service.ts:241-250`) counts from the slot, so that delays do
not add up (`PhaseKept`): a template planned for 1 every 2 and cloned at 2 is next due at 3, not 4.

Without a run: the comment before the comparison of releases (`pm2.ts:1195`) says that the release in the ready lock
must be the one asked for, and that only an earlier Gateway, which writes none, cannot be compared. `gatewayVersionFromLock` is a
second query that does not ask for a ready row, and finding no row, another's or one that is not ready is accepted like a row
without a version (`pm2.ts:1197`). A Gateway that crashes between the two queries is started again, and its row tells no release
yet; the command reports success, and the files turn out to be of another release. TLC shows it on the instance of `Management` when
`told` is left out of `SuccessAgrees`. The two queries follow each other in one synchronous function, so the window is narrow.
`SuccessAgrees` and `SuccessAlwaysAgrees` speak of every command whose second query found a release.

## Not modelled

Output, logs, session ids, rendering, argument parsing, the Windows branches, systemd and log rotation: the LaunchAgent of
macOS is the only way to start with the machine that the program itself installs and undoes.
Processes that leave their group (`setsid`, `detached`): the documentation puts
them outside what the system manages. A natural success that comes after a
termination has begun is executed again: at-least-once, as documented. `start`,
`done`, `rejectBlockedDependents`, `markPendingForRetry` and `markDeadLetter` of
`TaskService` have no caller in the program. `scripts/reset-status.ts` writes to the
tables with no guard and is a development tool. SQLite's transactions are taken as atomic
and durable. The single Gateway that TaskQueue and Execution start from is what `OneGateway` says.

The probes of a process tree follow Unix. There `kill` with signal 0 tells a process that is not there, one that is and one that
may not be signalled, and the last counts as there. Only `tasklist` of Windows leaves the answer open, and the check of a run without
a token takes that for absence (`heartbeat.ts:53-54`); the Worker starts no execution on Windows (`worker/index.ts:86`).
That another program takes the pid of a dead group is not a state of `Execution`: there `NoBlindSignal` says that a signal needs the
identity of the group, whoever has its pid. `GatewayLock` has reused pids as states.

The inside of the launcher: its exit and its proof come in any order or not at all, which is
all the Worker knows. The pages of the cleanup: any set of tasks a page may hold is deleted, in one transaction as in the code; which page
follows matters to nobody, as the cursor only descends within a call and each call starts afresh. The health report: counters nobody acts
on. There is one database scope; that a Gateway of another scope is left alone is part of `Refuse`. A Gateway that
never writes a version into its row, updating the global CLI, and the plugin's refusal to write under a Gateway of another release
are left out.

Two things the code allows and no property forbids. Two concurrent upgrades install and put back the plugin outside the
locks (`cli/index.ts:856`), so that plugin and Gateway may end at different releases; TLC finds it with two operators, and the theorems about the plugin exclude it (`OneUpgrade`). A maintenance
command that was killed while PM2 stopped the Gateway frees its locks; the next one may look while that stop still hands a running task back, so
that the run it finds gone was cut off for its predecessor; TLC finds it when `cut` is not reset by the look.

## Plan

Done: the queue, its executor, Scheduler, lock, PM2, deployment and maintenance, each with its proofs. Left, in this order:

1. `Launcher`: the START gate, probes with unknown answers, proof and
   acknowledgment with time limits over an IPC channel; refines the process groups of Execution.
2. Small modules: health, the diagnostic cache, the output tail.
