------------------------------ MODULE TaskQueue ------------------------------
(***************************************************************************)
(* The durable queue: clients and one Gateway working on the TaskStore.    *)
(*                                                                         *)
(* The Gateway starts (orphans reset, blocked tasks resolved), runs its    *)
(* Worker loop, stops or crashes, and starts again.  The Worker loop is    *)
(* sequential, and other processes may commit between any two of its       *)
(* transactions: it counts what runs (phase look), sees a free slot (phase *)
(* slot), claims a task, and only in a second transaction records the run  *)
(* (phase claimed).  How an execution comes to its end is left open here:  *)
(* any open run may be settled in any way the code has.                    *)
(***************************************************************************)
EXTENDS TaskStore

CONSTANT MaxConcurrency     \* worker.maxConcurrency

ASSUME ConcurrencyAssumption == MaxConcurrency \in Nat \ {0}

VARIABLES
  gateway,   \* "down", "starting", "up" or "stopping"
  phase,     \* where the Worker's dispatch loop is
  claim      \* the task claimed but without a run yet, or 0

queueVars == <<gateway, phase, claim>>
vars == <<tasks, runs, nextTask, nextRun, gateway, phase, claim>>

TypeOK ==
  /\ StoreTypeOK
  /\ gateway \in {"down", "starting", "up", "stopping"}
  /\ phase \in {"idle", "look", "slot", "claimed"}
  /\ claim \in TaskId \cup {0}

Init ==
  /\ StoreInit
  /\ gateway = "down"
  /\ phase = "idle"
  /\ claim = 0

-----------------------------------------------------------------------------
(* Clients act at any time, whatever the Gateway does.                     *)

ClientAdd ==
  \E dep \in TaskId \cup {0}, b \in Batches \cup {NoBatch}, c \in Cwds, p \in Prios, m \in RetryLimits :
     Add(dep, b, c, p, m)

ClientUpdate ==
  \E t \in TaskId, b \in Batches \cup {NoBatch}, p \in Prios, m \in RetryLimits : Update(t, b, p, m)

ClientCancel == \E t \in TaskId : Cancel(t)
ClientRetry == \E t \in TaskId : Retry(t)
ClientRetryBatch == \E b \in Batches : RetryBatch(b)
ClientDelete == \E t \in TaskId : Delete(t)

\* supertask run abandon: closes a run of a cancelled task.
ClientAbandon == \E r \in RunId : CloseRun(r) /\ tasks[runs[r].task].status = "cancelled"

Client ==
  /\ \/ ClientAdd \/ ClientUpdate \/ ClientCancel \/ ClientRetry \/ ClientRetryBatch \/ ClientDelete
     \/ ClientAbandon
  /\ UNCHANGED queueVars

-----------------------------------------------------------------------------
(* The Gateway's life.                                                     *)

GatewayStart ==
  /\ gateway = "down"
  /\ ResetOrphans
  /\ gateway' = "starting"
  /\ UNCHANGED <<phase, claim>>

GatewayReady ==
  /\ gateway = "starting"
  /\ ResolveBlocked
  /\ gateway' = "up"
  /\ UNCHANGED <<phase, claim>>

\* Worker.stop: no further claim; a claim in progress is still completed.
GatewayStop ==
  /\ gateway = "up"
  /\ gateway' = "stopping"
  /\ phase' = IF phase = "claimed" THEN phase ELSE "idle"
  /\ UNCHANGED <<storeVars, claim>>

\* The process ends: orderly, or at any point of its work.
GatewayExit ==
  /\ gateway # "down"
  /\ gateway' = "down"
  /\ phase' = "idle"
  /\ claim' = 0
  /\ UNCHANGED storeVars

-----------------------------------------------------------------------------
(* The Worker's dispatch loop.                                             *)

Poll ==
  /\ gateway = "up" /\ phase = "idle"
  /\ ResetOrphans
  /\ phase' = "look"
  /\ UNCHANGED <<gateway, claim>>

Look ==
  /\ gateway = "up" /\ phase = "look"
  /\ phase' = IF CountRunning < MaxConcurrency THEN "slot" ELSE "idle"
  /\ UNCHANGED <<storeVars, gateway, claim>>

\* excluded: the batches the Worker's memory holds, beside those the
\* database shows as active.
Dispatch ==
  /\ gateway = "up" /\ phase = "slot"
  /\ \E t \in TaskId, excluded \in SUBSET Batches : ClaimNext(t, excluded) /\ claim' = t
  /\ phase' = "claimed"
  /\ UNCHANGED gateway

\* Nothing to run, no entry free, opencode --version cannot be read, or the
\* database refuses a read: the poll ends.
NoDispatch ==
  /\ gateway = "up" /\ phase \in {"look", "slot"}
  /\ phase' = "idle"
  /\ UNCHANGED <<storeVars, gateway, claim>>

StartRun ==
  /\ phase = "claimed"
  /\ CreateRun(claim)
  /\ phase' = IF gateway = "up" THEN "look" ELSE "idle"
  /\ claim' = 0
  /\ UNCHANGED gateway

\* The run cannot be recorded: the task was deleted, or the database
\* refuses; the compensation may be refused as well.
StartFails ==
  /\ phase = "claimed"
  /\ Fail(claim) \/ UNCHANGED storeVars
  /\ phase' = IF gateway = "up" THEN "look" ELSE "idle"
  /\ claim' = 0
  /\ UNCHANGED gateway

\* A stopping Worker hands back the task it has claimed, or the one whose
\* run it has just closed.
HandBack ==
  /\ gateway = "stopping"
  /\ \E t \in Orphans \cup {claim} :
        /\ ResetToPending({t})
        /\ claim' = IF t = claim THEN 0 ELSE claim
        /\ phase' = IF t = claim THEN "idle" ELSE phase
  /\ UNCHANGED gateway

-----------------------------------------------------------------------------
(* Executions end.  A run is closed on its own when its task is no longer  *)
(* running, or by a stopping Worker that has not spawned it yet.           *)

Settle(r) ==
  \/ CompleteRun(r)
  \/ \E deadLetter \in BOOLEAN : FailRun(r, deadLetter)
  \/ RecoverRun(r)
  \/ /\ CloseRun(r)
     /\ ~RunningTask(runs[r].task)

Execution ==
  /\ gateway \in {"up", "stopping"}
  /\ \E r \in RunId : Settle(r)
  /\ UNCHANGED queueVars

Shutdown ==
  /\ gateway = "stopping"
  /\ \E r \in RunId : InterruptRun(r) \/ CloseRun(r)
  /\ UNCHANGED queueVars

Retention ==
  /\ gateway = "up"
  /\ \E page \in SUBSET DOMAIN tasks : Cleanup(page)
  /\ UNCHANGED queueVars

Backoff ==
  /\ \E t \in TaskId : BackoffElapses(t)
  /\ UNCHANGED queueVars

Next ==
  \/ Client
  \/ GatewayStart \/ GatewayReady \/ GatewayStop \/ GatewayExit
  \/ Poll \/ Look \/ Dispatch \/ NoDispatch \/ StartRun \/ StartFails \/ HandBack
  \/ Execution \/ Shutdown \/ Retention \/ Backoff

Spec == Init /\ [][Next]_vars

\* What the Gateway and time do of their own accord: shutdown is bounded
\* and the process is started again (PM2, or the operator).  Look and
\* Dispatch need strong fairness: a poll may find the database busy or
\* opencode unreadable, though not for ever.
Fairness ==
  /\ WF_vars(GatewayStart) /\ WF_vars(GatewayReady)
  /\ WF_vars(gateway = "stopping" /\ GatewayExit)
  /\ WF_vars(Poll \/ Look \/ NoDispatch)
  /\ SF_vars(Look) /\ SF_vars(Dispatch)
  /\ WF_vars(StartRun \/ StartFails)
  /\ \A r \in RunId : WF_vars(gateway = "up" /\ Settle(r) /\ UNCHANGED queueVars)
  /\ \A t \in TaskId : WF_vars(BackoffElapses(t) /\ UNCHANGED queueVars)

FairSpec == Spec /\ Fairness

-----------------------------------------------------------------------------
(* Properties.                                                             *)

\* A task occupies the queue from its claim until its last run is closed.
Occupied(t) == Active(t) \/ t = claim

\* No two tasks of one batch are in execution at the same time, also across
\* a cancellation or a restart with runs still open (claimNext's batch
\* condition and the window before TaskRunService.create).
BatchSerial ==
  \A t, u \in DOMAIN tasks :
     Occupied(t) /\ Occupied(u) /\ tasks[t].batch = tasks[u].batch /\ tasks[t].batch # NoBatch
        => t = u

\* An open run belongs to a stored task that is running or was cancelled
\* while it ran, and no task has two open runs: what the guards of
\* completeRun, failRun, recoverRun and delete jointly maintain.
OneOpenRun ==
  \A r \in DOMAIN runs : runs[r].status = "running" =>
     /\ runs[r].task \in DOMAIN tasks
     /\ tasks[runs[r].task].status \in {"running", "cancelled"}
     /\ OpenRuns(runs[r].task) = {r}

\* A task that waits can still run one day: its dependency is stored, of
\* the same project, and itself able to finish.  Cancelling, failing,
\* editing, deleting and purging a task all have to see to its dependents.
NoStrandedTask ==
  \A t \in Waiting(tasks) : tasks[t].dependsOn # 0 =>
     /\ tasks[t].dependsOn \in DOMAIN tasks
     /\ tasks[tasks[t].dependsOn].cwd = tasks[t].cwd
     /\ tasks[tasks[t].dependsOn].status \notin {"dead_letter", "cancelled"}
     /\ tasks[tasks[t].dependsOn].status = "failed" =>
           tasks[tasks[t].dependsOn].retryCount <= tasks[tasks[t].dependsOn].maxRetries

\* On a database an older release left behind, with dependencies missing,
\* in another project or dead, the same holds once the Gateway has started.
RepairedOnStart == gateway \in {"up", "stopping"} => NoStrandedTask

\* A task never executes before the task it depends on is done, and that
\* one stays done and stored as long as the execution may be repeated.
DependencyFirst ==
  \A t \in DOMAIN tasks : tasks[t].status = "running" /\ tasks[t].dependsOn # 0 =>
     /\ tasks[t].dependsOn \in DOMAIN tasks
     /\ tasks[tasks[t].dependsOn].status = "done"
     /\ tasks[tasks[t].dependsOn].cwd = tasks[t].cwd

\* Neither delete nor the retention cleanup takes a task something stored
\* may still have to run after, a dead letter awaiting its retry included.
DependencyKept ==
  \A t \in DOMAIN tasks :
     tasks[t].status \in {"pending", "running", "failed", "dead_letter"} =>
        tasks[t].dependsOn \in DOMAIN tasks \cup {0}

\* A task that may execute again has not used up its budget, whatever
\* edits, failures, recoveries and batch retries it has been through.
WithinBudget ==
  \A t \in DOMAIN tasks : tasks[t].status \in {"pending", "running", "failed"} =>
     tasks[t].retryCount <= tasks[t].maxRetries

\* At most maxConcurrency tasks are in execution, runs left by an earlier
\* Gateway and cancelled tasks included, although the count and the claim
\* are two transactions.
ConcurrencyCap == Cardinality({t \in DOMAIN tasks : Occupied(t)}) <= MaxConcurrency

\* done and cancelled are final: no late completion, recovery, reset or
\* retry changes such a row; it can only be deleted.
Final ==
  [][\A t \in DOMAIN tasks : tasks[t].status \in {"done", "cancelled"} =>
        t \notin DOMAIN tasks' \/ tasks'[t] = tasks[t]]_vars

\* A run that is still open is never deleted, nor is its task, also when
\* the task was cancelled (delete's and the cleanup's guards, FK cascade).
NoRowLostInFlight ==
  [][\A r \in DOMAIN runs : OpenRun(r) => r \in DOMAIN runs' /\ runs[r].task \in DOMAIN tasks']_vars

\* What the documentation and the test of dead letters say: a dead letter
\* carries the time it ended, which the retention cleanup needs to see.
DeadLetterDated ==
  \A t \in DOMAIN tasks : tasks[t].status = "dead_letter" => tasks[t].finished

Settled ==
  /\ claim = 0
  /\ \A t \in DOMAIN tasks : ~Active(t) /\ tasks[t].status \in {"done", "dead_letter", "cancelled"}

\* Interventions a behaviour may repeat for ever.
Intervention == Client \/ GatewayStop \/ GatewayExit \/ (StartFails /\ UNCHANGED storeVars)

\* Left alone, the queue drains: no task waits for ever on a batch, a
\* backoff, an orphaned row or a dependency.  (Runs are bounded, so a
\* behaviour that has used them all is not asked for more.)
Drains ==
  \/ []<><<Intervention>>_vars
  \/ <>(nextRun > MaxRuns)
  \/ <>[]Settled
=============================================================================
