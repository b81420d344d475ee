------------------------------ MODULE TaskStore ------------------------------
(***************************************************************************)
(* The tables tasks and task_runs of the SQLite file every SuperTask       *)
(* process shares, and the transactions of TaskService and TaskRunService  *)
(* over them.  A service operation runs in one immediate transaction (or   *)
(* is one statement), so it is one atomic action here.  The actions        *)
(* constrain the variables of this module only: TaskQueue composes them    *)
(* with the Worker that claims tasks, with clients and with restarts.      *)
(*                                                                         *)
(* Abstracted: text columns; urgency and importance to one rank prio;      *)
(* retryAfter to wait ("set, and still in the future"); finishedAt to      *)
(* whether it is set; the optional cwd scope of an operation, which only   *)
(* narrows the rows it may touch.                                          *)
(***************************************************************************)
EXTENDS Naturals, FiniteSets

CONSTANTS
  MaxTasks,      \* bound: highest tasks.id a behaviour reaches
  MaxRuns,       \* bound: highest task_runs.id a behaviour reaches
  Batches,       \* normalised non-empty batch ids
  NoBatch,       \* batch_id IS NULL
  Cwds,          \* project directories
  Prios,         \* ranks of (urgency, importance), higher first
  RetryLimits    \* values of max_retries

ASSUME StoreConstants ==
  /\ MaxTasks \in Nat \ {0}
  /\ MaxRuns \in Nat \ {0}
  /\ NoBatch \notin Batches
  /\ Prios \subseteq Nat
  /\ RetryLimits \subseteq Nat

VARIABLES
  tasks,         \* the rows of tasks, by id
  runs,          \* the rows of task_runs, by id
  nextTask,      \* AUTOINCREMENT of tasks: an id is never used twice
  nextRun        \* AUTOINCREMENT of task_runs

storeVars == <<tasks, runs, nextTask, nextRun>>

TaskId == 1 .. MaxTasks
RunId == 1 .. MaxRuns

TaskStatus == {"pending", "running", "done", "failed", "dead_letter", "cancelled"}
RunStatus == {"running", "done", "failed"}

TaskRow == [status : TaskStatus, retryCount : Nat, maxRetries : RetryLimits,
            wait : BOOLEAN, finished : BOOLEAN, dependsOn : TaskId \cup {0},
            batch : Batches \cup {NoBatch}, cwd : Cwds, prio : Prios]
RunRow == [task : TaskId, status : RunStatus]

StoreTypeOK ==
  /\ DOMAIN tasks \subseteq TaskId
  /\ tasks \in [DOMAIN tasks -> TaskRow]
  /\ DOMAIN runs \subseteq RunId
  /\ runs \in [DOMAIN runs -> RunRow]
  /\ nextTask \in 1 .. MaxTasks + 1
  /\ nextRun \in 1 .. MaxRuns + 1

\* Fault: the id sequence starts at 0, which dependsOn uses for "none".
FaultyStoreInit ==
  tasks = [t \in {} |-> {}] /\ runs = [r \in {} |-> {}] /\ nextTask = 0 /\ nextRun = 1

StoreInit ==
  /\ tasks = [t \in {} |-> {}]
  /\ runs = [r \in {} |-> {}]
  /\ nextTask = 1
  /\ nextRun = 1

-----------------------------------------------------------------------------
(* Predicates the SQL conditions are built from.  db is a state of tasks:  *)
(* a transaction's later statements see what its earlier ones wrote.       *)

Waiting(db) == {t \in DOMAIN db : db[t].status \in {"pending", "failed"}}

Recoverable(row) ==
  \/ row.status \in {"pending", "running", "done"}
  \/ row.status = "failed" /\ row.retryCount <= row.maxRetries

\* Fault: the project of the dependency is not compared.
FaultyViable(db, dep, cwd) ==
  \/ dep = 0
  \/ dep \in DOMAIN db /\ Recoverable(db[dep])

\* A dependency a task of project cwd can still hope for.
Viable(db, dep, cwd) ==
  \/ dep = 0
  \/ dep \in DOMAIN db /\ db[dep].cwd = cwd /\ Recoverable(db[dep])

\* Fault: direct dependents only.
FaultyDownstream(db, roots) == {t \in Waiting(db) : db[t].dependsOn \in roots}

\* The least set of waiting tasks holding the dependents of roots and the
\* dependents of its own members: the recursive query blocked_task.
Downstream(db, roots) ==
  {t \in Waiting(db) :
     \A S \in SUBSET Waiting(db) :
        (\A u \in Waiting(db) : db[u].dependsOn \in roots \cup S => u \in S) => t \in S}

\* The row of a task that ends for good.
Ended(row, status) == [row EXCEPT !.status = status, !.wait = FALSE, !.finished = TRUE]

Bury(db, S) == [t \in DOMAIN db |-> IF t \in S THEN Ended(db[t], "dead_letter") ELSE db[t]]

\* The second statement of a transaction that may end task p for good.
Cascade(db, p) ==
  IF db[p].status \in {"dead_letter", "cancelled"} THEN Bury(db, Downstream(db, {p})) ELSE db

OpenRuns(t) == {r \in DOMAIN runs : runs[r].task = t /\ runs[r].status = "running"}

\* Fault: a cancelled task with an open run does not count.
FaultyActive(t) == tasks[t].status = "running"

Active(t) == tasks[t].status = "running" \/ OpenRuns(t) # {}

\* Fault: the batch condition looks at tasks.status alone.
FaultyActiveTasks == {t \in DOMAIN tasks : tasks[t].status = "running"}

ActiveTasks == {t \in DOMAIN tasks : Active(t)}

\* Fault: open runs of tasks that are no longer running are not counted.
FaultyCountRunning == Cardinality({t \in DOMAIN tasks : tasks[t].status = "running"})

CountRunning == Cardinality(ActiveTasks)

\* Fault: a dead letter is not counted as a dependent.
FaultyDependents(t) == {u \in Waiting(tasks) : tasks[u].dependsOn = t}

Dependents(t) == {u \in DOMAIN tasks : tasks[u].dependsOn = t}

\* Fault: a dependency that may still finish is enough.
FaultyDependencyDone(t) == Viable(tasks, tasks[t].dependsOn, tasks[t].cwd)

DependencyDone(t) ==
  \/ tasks[t].dependsOn = 0
  \/ /\ tasks[t].dependsOn \in DOMAIN tasks
     /\ tasks[tasks[t].dependsOn].status = "done"
     /\ tasks[tasks[t].dependsOn].cwd = tasks[t].cwd

Runnable(excluded) ==
  {t \in Waiting(tasks) :
     /\ ~tasks[t].wait
     /\ tasks[t].status = "failed" => tasks[t].retryCount <= tasks[t].maxRetries
     /\ DependencyDone(t)
     /\ tasks[t].batch # NoBatch =>
           /\ tasks[t].batch \notin excluded
           /\ \A u \in ActiveTasks : tasks[u].batch # tasks[t].batch
     /\ OpenRuns(t) = {}}

\* urgency DESC, importance DESC, createdAt ASC, id ASC
Before(t, u) ==
  \/ tasks[t].prio > tasks[u].prio
  \/ tasks[t].prio = tasks[u].prio /\ t < u

-----------------------------------------------------------------------------
(* Operations of clients: plugin, CLI, Dashboard (and the Scheduler, whose *)
(* clones are added without a dependency).                                 *)

Add(dep, batch, cwd, prio, limit) ==
  /\ nextTask <= MaxTasks
  /\ Viable(tasks, dep, cwd)
  /\ tasks' = [t \in DOMAIN tasks \cup {nextTask} |->
                 IF t = nextTask
                 THEN [status |-> "pending", retryCount |-> 0, maxRetries |-> limit,
                       wait |-> FALSE, finished |-> FALSE, dependsOn |-> dep,
                       batch |-> batch, cwd |-> cwd, prio |-> prio]
                 ELSE tasks[t]]
  /\ nextTask' = nextTask + 1
  /\ UNCHANGED <<runs, nextRun>>

\* Fault: a recovered task, pending with failures counted, is forgotten.
FaultyExhausted(t, limit) == tasks[t].status = "failed" /\ tasks[t].retryCount > limit

Exhausted(t, limit) == t \in Waiting(tasks) /\ tasks[t].retryCount > limit

EditedRow(row, batch, prio, limit, exhausted) ==
  [row EXCEPT !.batch = batch, !.prio = prio, !.maxRetries = limit,
              !.status = IF exhausted THEN "dead_letter" ELSE @,
              !.wait = IF exhausted THEN FALSE ELSE @]

\* Edits a task that is not executing; a budget lowered below the failures
\* already counted ends it, and everything downstream of it.
Update(t, batch, prio, limit) ==
  /\ t \in DOMAIN tasks
  /\ tasks[t].status \in {"pending", "failed", "dead_letter"}
  /\ LET exhausted == Exhausted(t, limit)
         edited == [tasks EXCEPT ![t] = EditedRow(@, batch, prio, limit, exhausted)]
     IN tasks' = IF exhausted THEN Cascade(edited, t) ELSE edited
  /\ UNCHANGED <<runs, nextTask, nextRun>>

Cancel(t) ==
  /\ t \in DOMAIN tasks
  /\ tasks[t].status \in {"pending", "running", "failed"}
  /\ tasks' = Cascade([tasks EXCEPT ![t] = Ended(@, "cancelled")], t)
  /\ UNCHANGED <<runs, nextTask, nextRun>>

\* The row of a task put back into the queue.
Pending(row) == [row EXCEPT !.status = "pending", !.finished = FALSE]

Requeued(row) == [Pending(row) EXCEPT !.wait = FALSE, !.retryCount = 0]

Retry(t) ==
  /\ t \in DOMAIN tasks
  /\ tasks[t].status \in {"failed", "dead_letter"}
  /\ Viable(tasks, tasks[t].dependsOn, tasks[t].cwd)
  /\ tasks' = [tasks EXCEPT ![t] = Requeued(@)]
  /\ UNCHANGED <<runs, nextTask, nextRun>>

\* The candidates of batch b whose chain of dependencies is sound: outside
\* the candidates it must be viable, inside it must be retryable as well.
Retryable(b) ==
  LET C == {t \in DOMAIN tasks : tasks[t].batch = b /\ tasks[t].status \in {"failed", "dead_letter"}}
      Sound(t, S) ==
        \/ tasks[t].dependsOn \notin C /\ Viable(tasks, tasks[t].dependsOn, tasks[t].cwd)
        \/ tasks[t].dependsOn \in S /\ tasks[tasks[t].dependsOn].cwd = tasks[t].cwd
  IN {t \in C : \A S \in SUBSET C : (\A u \in C : Sound(u, S) => u \in S) => t \in S}

RetryBatch(b) ==
  /\ Retryable(b) # {}
  /\ tasks' = [t \in DOMAIN tasks |-> IF t \in Retryable(b) THEN Requeued(tasks[t]) ELSE tasks[t]]
  /\ UNCHANGED <<runs, nextTask, nextRun>>

\* Deletes rows of tasks; the foreign key deletes their runs with them.
Remove(S) ==
  /\ tasks' = [t \in DOMAIN tasks \ S |-> tasks[t]]
  /\ runs' = [r \in {q \in DOMAIN runs : runs[q].task \notin S} |-> runs[r]]
  /\ UNCHANGED <<nextTask, nextRun>>

Delete(t) ==
  /\ t \in DOMAIN tasks
  /\ ~Active(t)
  /\ \A u \in Dependents(t) : tasks[u].status \in {"done", "cancelled"}
  /\ Remove({t})

\* The largest part of the expired page no stored task outside it depends
\* on; a row whose dependency is not older than itself is kept.
Purgeable(page) ==
  LET sane == {t \in page : tasks[t].dependsOn < t}
  IN UNION {S \in SUBSET sane : \A t \in S : Dependents(t) \subseteq S}

\* One transaction of the retention cleanup.  Age is not modelled: page is
\* any set of rows the query may return.
Cleanup(page) ==
  /\ page # {}
  /\ \A t \in page : /\ tasks[t].status \in {"done", "dead_letter", "cancelled"}
                     /\ tasks[t].finished
                     /\ OpenRuns(t) = {}
  /\ Remove(Purgeable(page))

-----------------------------------------------------------------------------
(* Operations of the Gateway.                                              *)

\* Selects the best candidate and marks it, in one transaction.
ClaimNext(t, excluded) ==
  /\ t \in Runnable(excluded)
  /\ \A u \in Runnable(excluded) \ {t} : Before(t, u)
  /\ tasks' = [tasks EXCEPT ![t] = [@ EXCEPT !.status = "running", !.finished = FALSE]]
  /\ UNCHANGED <<runs, nextTask, nextRun>>

\* TaskRunService.create; the foreign key refuses a deleted task.
CreateRun(t) ==
  /\ nextRun <= MaxRuns
  /\ t \in DOMAIN tasks
  /\ runs' = [r \in DOMAIN runs \cup {nextRun} |->
                IF r = nextRun THEN [task |-> t, status |-> "running"] ELSE runs[r]]
  /\ nextRun' = nextRun + 1
  /\ UNCHANGED <<tasks, nextTask>>

OpenRun(r) == r \in DOMAIN runs /\ runs[r].status = "running"

\* Fault: the status of the task is not checked again when its run ends.
FaultyRunningTask(t) == t \in DOMAIN tasks

RunningTask(t) == t \in DOMAIN tasks /\ tasks[t].status = "running"

Close(r, status) == runs' = [runs EXCEPT ![r].status = status]

Counted(row) == [row EXCEPT !.retryCount = @ + 1]

\* The row of a task after a failed execution; deadLetter is the option
\* setDeadLetter, used for tasks that can never run.
FailedRow(row, deadLetter) ==
  IF deadLetter \/ row.retryCount + 1 > row.maxRetries
  THEN Ended(Counted(row), "dead_letter")
  ELSE [Counted(row) EXCEPT !.status = "failed", !.wait = TRUE, !.finished = TRUE]

\* The row of a task whose execution the Watchdog found ended.
RecoveredRow(row) ==
  IF row.retryCount + 1 > row.maxRetries
  THEN Ended(Counted(row), "dead_letter")
  ELSE [Pending(Counted(row)) EXCEPT !.wait = TRUE]

CompleteRun(r) ==
  /\ OpenRun(r) /\ RunningTask(runs[r].task)
  /\ tasks' = [tasks EXCEPT ![runs[r].task] = Ended(@, "done")]
  /\ Close(r, "done")
  /\ UNCHANGED <<nextTask, nextRun>>

FailRun(r, deadLetter) ==
  /\ OpenRun(r) /\ RunningTask(runs[r].task)
  /\ LET t == runs[r].task
     IN tasks' = Cascade([tasks EXCEPT ![t] = FailedRow(@, deadLetter)], t)
  /\ Close(r, "failed")
  /\ UNCHANGED <<nextTask, nextRun>>

\* TaskService.fail: a failure before a run exists.
Fail(t) ==
  /\ RunningTask(t)
  /\ tasks' = Cascade([tasks EXCEPT ![t] = FailedRow(@, FALSE)], t)
  /\ UNCHANGED <<runs, nextTask, nextRun>>

\* Closes the run whatever became of the task, and requeues a running task.
RecoverRun(r) ==
  /\ OpenRun(r)
  /\ LET t == runs[r].task
     IN tasks' = IF RunningTask(t)
                 THEN Cascade([tasks EXCEPT ![t] = RecoveredRow(@)], t)
                 ELSE tasks
  /\ Close(r, "failed")
  /\ UNCHANGED <<nextTask, nextRun>>

\* The orderly shutdown's version: the attempt is not counted.
InterruptRun(r) ==
  /\ OpenRun(r)
  /\ LET t == runs[r].task
     IN tasks' = IF RunningTask(t)
                 THEN [tasks EXCEPT ![t] = [Pending(@) EXCEPT !.wait = FALSE]]
                 ELSE tasks
  /\ Close(r, "failed")
  /\ UNCHANGED <<nextTask, nextRun>>

\* TaskRunService.fail: the run alone.
CloseRun(r) ==
  /\ OpenRun(r)
  /\ Close(r, "failed")
  /\ UNCHANGED <<tasks, nextTask, nextRun>>

\* running -> pending for the running tasks of S.
ResetToPending(S) ==
  /\ tasks' = [t \in DOMAIN tasks |->
                 IF t \in S /\ RunningTask(t) THEN Pending(tasks[t]) ELSE tasks[t]]
  /\ UNCHANGED <<runs, nextTask, nextRun>>

\* Fault: every running task is taken for an orphan.
FaultyOrphans == {t \in DOMAIN tasks : tasks[t].status = "running"}

\* Fault: orphans are never found.
NoOrphans == {}

Orphans == {t \in DOMAIN tasks : tasks[t].status = "running" /\ OpenRuns(t) = {}}

ResetOrphans == ResetToPending(Orphans)

\* At start: every waiting task without a viable dependency, and what
\* waits for one of those.
ResolveBlocked ==
  /\ LET seeds == {t \in Waiting(tasks) : ~Viable(tasks, tasks[t].dependsOn, tasks[t].cwd)}
     IN tasks' = Bury(tasks, seeds \cup Downstream(tasks, seeds))
  /\ UNCHANGED <<runs, nextTask, nextRun>>

\* Time: retryAfter of task t passes.
BackoffElapses(t) ==
  /\ t \in DOMAIN tasks
  /\ tasks[t].wait
  /\ tasks' = [tasks EXCEPT ![t] = [@ EXCEPT !.wait = FALSE]]
  /\ UNCHANGED <<runs, nextTask, nextRun>>
=============================================================================
