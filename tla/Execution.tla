------------------------------ MODULE Execution ------------------------------
(***************************************************************************)
(* How a claimed task is executed: the Worker's dispatch loop and its map  *)
(* of running tasks, the launcher process group of each run, the Watchdog  *)
(* that recovers runs nobody owns, orderly shutdown and crashes, on the    *)
(* tables of TaskStore.  TaskQueue is what this promises: see Refines.     *)
(*                                                                         *)
(* Grain: the Gateway is one event loop.  What the code does without       *)
(* waiting for an event of another process or a timer is one action, and   *)
(* anything may happen between two actions.  A transaction another process *)
(* may refuse or delay ends an action.                                     *)
(*                                                                         *)
(* External, modelled as the Worker and the Watchdog see it: the operating *)
(* system's processes.  A process that leaves its group is not modelled.   *)
(* Abstracted: output and session ids, heartbeats (any run may look stale  *)
(* at any time), model, variant and prompt.                                *)
(***************************************************************************)
EXTENDS TaskStore

CONSTANT MaxConcurrency     \* worker.maxConcurrency

ASSUME ConcurrencyAssumption == MaxConcurrency \in Nat \ {0}

VARIABLES
  gateway,         \* "down", "starting", "up", "stopping" (Worker.stopped)
  phase,           \* where the dispatch loop is
  claim,           \* the task claimed but without a run yet, or 0
  batch,           \* the batch of the task being started
  cur,             \* the run being started, or whose termination is awaited
  left,            \* entries the reconciliation of this poll has yet to visit
  runningTasks,    \* the Worker's entries, by run
  activeBatchIds,  \* batches the Worker holds
  childPid,        \* runs whose launcher's pid is recorded in task_runs
  protocol,        \* task_runs.launch_protocol
  group,           \* the process group of each run
  todo,            \* the Watchdog's stale runs: <<run, pid known>>
  dying,           \* the run whose group the Watchdog waits for, or 0
  halt,            \* where Worker.stop and the shutdown after it are
  interrupted      \* runs the stop has ended, whose tasks are to be requeued

loopVars == <<phase, claim, batch, cur, left>>
workerVars == <<runningTasks, activeBatchIds>>
osVars == <<childPid, protocol, group>>
watchVars == <<todo, dying>>
stopVars == <<gateway, halt, interrupted>>
memory == <<loopVars, workerVars, watchVars, stopVars>>
vars == <<storeVars, loopVars, workerVars, osVars, watchVars, stopVars>>

Phases == {"idle", "cancels", "quarantines", "look", "slot", "claimed", "spawn",
           "handback", "record", "release", "abort", "aborting"}

\* gate: the launcher waits for START, told: START is in its pipe, work: it
\* guards OpenCode's tree, drained: the tree has ended and the proof is
\* sent, loose: the tree has lost its launcher, killed: SIGKILL is sent.
Groups == {"none", "gate", "told", "work", "drained", "loose", "killed", "gone"}

\* NULL, gated-v2-guardian, gated-v3-token-guardian, or of a later release.
Protocols == {"null", "guardian", "token", "unknown"}

\* settle: decided to end, as a success or not, and to be committed.
Entry == [task : TaskId, batch : Batches \cup {NoBatch},
          term : {"none", "cancel", "failure", "shutdown"},  \* termination
          kill : {"no", "SIGTERM", "SIGKILL"},               \* terminationPromise
          quarantined : BOOLEAN, drained : BOOLEAN, closed : BOOLEAN,
          settle : {"no", "done", "failed"}]

TypeOK ==
  /\ StoreTypeOK
  /\ gateway \in {"down", "starting", "up", "stopping"}
  /\ phase \in Phases
  /\ claim \in TaskId \cup {0}
  /\ batch \in Batches \cup {NoBatch}
  /\ cur \in RunId \cup {0}
  /\ left \subseteq RunId
  /\ DOMAIN runningTasks \subseteq RunId
  /\ runningTasks \in [DOMAIN runningTasks -> Entry]
  /\ activeBatchIds \subseteq Batches
  /\ childPid \subseteq RunId
  /\ protocol \in [RunId -> Protocols]
  /\ group \in [RunId -> Groups]
  /\ todo \subseteq RunId \X BOOLEAN
  /\ dying \in RunId \cup {0}
  /\ halt \in {"no", "grace", "kill", "close"}
  /\ interrupted \subseteq RunId

Idle ==
  /\ phase = "idle" /\ claim = 0 /\ batch = NoBatch /\ cur = 0 /\ left = {}
  /\ runningTasks = [r \in {} |-> {}] /\ activeBatchIds = {}
  /\ todo = {} /\ dying = 0
  /\ halt = "no" /\ interrupted = {}

Init ==
  /\ StoreInit
  /\ gateway = "down" /\ Idle
  /\ childPid = {}
  /\ protocol = [r \in RunId |-> "token"]
  /\ group = [r \in RunId |-> "none"]

-----------------------------------------------------------------------------
(* Clients, time, and the Gateway's life outside the Worker.               *)

\* TaskQueue's dispatch loop waits at "look" while this one reconciles or
\* starts a run it has recorded, and rests as soon as the Worker is stopped.
QueuePhase ==
  IF gateway = "stopping" /\ phase # "claimed" THEN "idle"
  ELSE IF phase \in {"idle", "slot", "claimed"} THEN phase ELSE "look"

Queue == INSTANCE TaskQueue WITH phase <- QueuePhase

Client ==
  /\ \/ Queue!ClientAdd \/ Queue!ClientUpdate \/ Queue!ClientCancel
     \/ Queue!ClientRetry \/ Queue!ClientRetryBatch \/ Queue!ClientDelete
  /\ UNCHANGED <<memory, osVars>>

\* supertask run abandon: a cancelled task of a release without protocols,
\* no pid recorded; the operator has made sure that nothing is left of it.
Abandon ==
  /\ \E r \in RunId \ childPid :
        /\ protocol[r] = "null" /\ group[r] \in {"none", "gone"}
        /\ CloseRun(r) /\ tasks[runs[r].task].status = "cancelled"
  /\ UNCHANGED <<memory, osVars>>

Time ==
  /\ \E t \in TaskId : BackoffElapses(t)
  /\ UNCHANGED <<memory, osVars>>

Retention ==
  /\ gateway = "up"
  /\ \E page \in SUBSET DOMAIN tasks : Cleanup(page)
  /\ UNCHANGED <<memory, osVars>>

GatewayStart ==
  /\ gateway = "down"
  /\ ResetOrphans
  /\ gateway' = "starting"
  /\ UNCHANGED <<halt, interrupted, loopVars, workerVars, watchVars, osVars>>

GatewayReady ==
  /\ gateway = "starting"
  /\ ResolveBlocked
  /\ gateway' = "up"
  /\ UNCHANGED <<halt, interrupted, loopVars, workerVars, watchVars, osVars>>

\* The process ends and with it everything it remembers.
Vanish ==
  /\ gateway' = "down"
  /\ phase' = "idle" /\ claim' = 0 /\ batch' = NoBatch /\ cur' = 0 /\ left' = {}
  /\ runningTasks' = [r \in {} |-> {}] /\ activeBatchIds' = {}
  /\ todo' = {} /\ dying' = 0
  /\ halt' = "no" /\ interrupted' = {}
  /\ UNCHANGED <<storeVars, osVars>>

Crash == gateway # "down" /\ Vanish

-----------------------------------------------------------------------------
(* Ending an entry.                                                        *)

LeaderAlive == {"gate", "told", "work", "drained", "killed"}

\* Fault: the exit of the launcher is taken for the end of its group.
FaultyProven(e) == e.closed

\* The proof bound to the run's identity, and the launcher's exit.
Proven(e) == e.drained /\ e.closed

Settling(e, outcome) == [e EXCEPT !.settle = outcome, !.kill = "no", !.quarantined = FALSE]

\* The launcher ignores SIGTERM once it guards.
Struck(g, signal) ==
  IF signal = "SIGKILL" THEN "killed" ELSE IF g \in {"gate", "told"} THEN "gone" ELSE g

Put(r, e) == runningTasks' = [runningTasks EXCEPT ![r] = e]

\* One signal of killEntry to the group of entry e: nothing left to end,
\* signalled, or refused (no leader to identify, pid reused, ps failed).
Strike(r, e, signal) ==
  \/ /\ Proven(e) \/ group[r] = "gone"
     /\ Put(r, Settling(e, "failed"))
     /\ UNCHANGED group
  \/ /\ ~Proven(e)
     /\ group[r] \in LeaderAlive
     /\ Put(r, [e EXCEPT !.kill = signal])
     /\ group' = [group EXCEPT ![r] = Struck(@, signal)]
  \/ /\ ~Proven(e)
     /\ Put(r, [e EXCEPT !.kill = "no"])
     /\ UNCHANGED group

\* terminateEntry: joins a termination or settlement already under way, and
\* keeps the reason of an earlier attempt.
Terminate(r, kind, signal) ==
  LET e == runningTasks[r]
  IN IF e.settle # "no" \/ e.kill # "no"
     THEN UNCHANGED <<runningTasks, group>>
     ELSE Strike(r, [e EXCEPT !.term = IF @ = "none" THEN kind ELSE @, !.quarantined = TRUE], signal)

\* What awaits r has to wait: its signal or its commit is under way.
Ending(r) ==
  r \in DOMAIN runningTasks /\ (runningTasks[r].kill # "no" \/ runningTasks[r].settle # "no")

Forget(r) ==
  /\ runningTasks' = [q \in DOMAIN runningTasks \ {r} |-> runningTasks[q]]
  /\ activeBatchIds' = activeBatchIds \ {runningTasks[r].batch}

KillSucceeds(r) ==
  /\ r \in DOMAIN runningTasks /\ runningTasks[r].kill # "no"
  /\ group[r] = "gone"
  /\ Put(r, Settling(runningTasks[r], "failed"))
  /\ UNCHANGED <<storeVars, loopVars, activeBatchIds, osVars, watchVars, stopVars>>

\* 2.5 seconds after SIGTERM the group is still there.
KillEscalates(r) ==
  /\ r \in DOMAIN runningTasks /\ runningTasks[r].kill = "SIGTERM"
  /\ Strike(r, runningTasks[r], "SIGKILL")
  /\ UNCHANGED <<storeVars, loopVars, activeBatchIds, childPid, protocol, watchVars, stopVars>>

\* 2.5 seconds after SIGKILL it is: the entry stays quarantined.
KillFails(r) ==
  /\ r \in DOMAIN runningTasks /\ runningTasks[r].kill = "SIGKILL"
  /\ Put(r, [runningTasks[r] EXCEPT !.kill = "no"])
  /\ UNCHANGED <<storeVars, loopVars, activeBatchIds, osVars, watchVars, stopVars>>

\* Fault: the run is closed on its own whenever its transition is refused.
FaultySuperseded(r) == TRUE

Superseded(r) == ~RunningTask(runningTasks[r].task)

\* commitEntry: a shutdown leaves the run to the requeueing after it; a run
\* that ends while its task has another status is closed on its own.
Outcome(r) ==
  LET e == runningTasks[r]
  IN CASE e.term = "shutdown" -> UNCHANGED storeVars
       [] e.term = "cancel"   -> CloseRun(r)
       [] OTHER -> \/ e.settle = "done" /\ CompleteRun(r)
                   \/ e.settle = "failed" /\ FailRun(r, FALSE)
                   \/ CloseRun(r) /\ Superseded(r)

\* A settled entry is kept, and holds its slot and batch, until the database
\* has taken its outcome; the attempts before that one change nothing.
Commit(r) ==
  /\ r \in DOMAIN runningTasks /\ runningTasks[r].settle # "no"
  /\ Outcome(r) \/ (~OpenRun(r) /\ UNCHANGED storeVars)
  /\ interrupted' = IF runningTasks[r].term = "shutdown" THEN interrupted \cup {r} ELSE interrupted
  /\ Forget(r)
  /\ UNCHANGED <<loopVars, osVars, watchVars, gateway, halt>>

\* Fault: a refused commit is tried again for ever.
FaultyGiveUp(r) == FALSE

\* Past the shutdown deadline a refused commit is not tried again.
GiveUp(r) ==
  /\ gateway = "stopping"
  /\ r \in DOMAIN runningTasks /\ runningTasks[r].settle # "no" /\ runningTasks[r].term # "shutdown"
  /\ Forget(r)
  /\ UNCHANGED <<storeVars, loopVars, osVars, watchVars, stopVars>>

\* The proof arrives while the launcher waits for its acknowledgment.
DrainProof(r) ==
  /\ r \in DOMAIN runningTasks /\ group[r] = "drained" /\ ~runningTasks[r].drained
  /\ Put(r, [runningTasks[r] EXCEPT !.drained = TRUE])
  /\ UNCHANGED <<storeVars, loopVars, activeBatchIds, osVars, watchVars, stopVars>>

\* Fault: the group is not looked at.
FaultySeenGone(r) == TRUE

\* inspectSpawnedProcessTreePresence says not-running.
SeenGone(r) == group[r] = "gone"

\* handleChildClose: an entry already ending only learns of the exit.  With
\* the proof the exit code decides; without it the group has to be seen
\* gone, or the entry is quarantined.
ChildClose(r) ==
  /\ r \in DOMAIN runningTasks /\ ~runningTasks[r].closed
  /\ group[r] \in {"loose", "gone"}
  /\ LET e == [runningTasks[r] EXCEPT !.closed = TRUE]
     IN \/ /\ e.settle # "no" \/ e.term # "none"
           /\ Put(r, e)
        \/ /\ e.settle = "no" /\ e.term = "none"
           /\ \/ e.drained /\ \E outcome \in {"done", "failed"} : Put(r, Settling(e, outcome))
              \/ ~e.drained /\ SeenGone(r) /\ Put(r, Settling(e, "failed"))
              \/ ~e.drained /\ Put(r, [e EXCEPT !.term = "failure", !.quarantined = TRUE])
  /\ UNCHANGED <<storeVars, loopVars, activeBatchIds, osVars, watchVars, stopVars>>

\* The timer is armed once START is delivered, and disarmed when the entry
\* is to end.
Timeout(r) ==
  /\ r \in DOMAIN runningTasks /\ r # cur
  /\ runningTasks[r].term = "none" /\ runningTasks[r].settle = "no"
  /\ Terminate(r, "failure", "SIGKILL")
  /\ UNCHANGED <<storeVars, loopVars, activeBatchIds, childPid, protocol, watchVars, stopVars>>

-----------------------------------------------------------------------------
(* The poll cycle.                                                         *)

Poll ==
  /\ gateway = "up" /\ phase = "idle"
  /\ ResetOrphans
  /\ phase' = "cancels" /\ left' = DOMAIN runningTasks
  /\ UNCHANGED <<claim, batch, cur, workerVars, osVars, watchVars, stopVars>>

\* Fault: a quarantined entry is not tried again.
FaultyDoomed(r) ==
  /\ phase = "cancels"
  /\ runningTasks[r].task \in DOMAIN tasks /\ tasks[runningTasks[r].task].status = "cancelled"

\* reconcileCancelledTasks, then reconcileQuarantinedTasks: one entry after
\* the other, each termination awaited.
Doomed(r) ==
  IF phase = "cancels"
  THEN runningTasks[r].task \in DOMAIN tasks /\ tasks[runningTasks[r].task].status = "cancelled"
  ELSE runningTasks[r].quarantined /\ runningTasks[r].term # "none"

Reconcile ==
  /\ phase \in {"cancels", "quarantines"} /\ ~Ending(cur)
  /\ \E r \in left :
        /\ left' = left \ {r}
        /\ IF r \in DOMAIN runningTasks /\ Doomed(r)
           THEN /\ Terminate(r, IF phase = "cancels" THEN "cancel" ELSE runningTasks[r].term, "SIGTERM")
                /\ cur' = r
           ELSE UNCHANGED <<runningTasks, group>> /\ cur' = 0
  /\ UNCHANGED <<storeVars, phase, claim, batch, activeBatchIds, childPid, protocol, watchVars, stopVars>>

Reconciled ==
  /\ phase \in {"cancels", "quarantines"} /\ ~Ending(cur) /\ left = {}
  /\ phase' = IF phase = "cancels" THEN "quarantines" ELSE "look"
  /\ left' = IF phase = "cancels" THEN DOMAIN runningTasks ELSE {}
  /\ cur' = 0
  /\ UNCHANGED <<storeVars, claim, batch, workerVars, osVars, watchVars, stopVars>>

Look ==
  /\ phase = "look" /\ gateway = "up"
  /\ Cardinality(DOMAIN runningTasks) < MaxConcurrency
  /\ CountRunning < MaxConcurrency
  /\ phase' = "slot"
  /\ UNCHANGED <<storeVars, claim, batch, cur, left, workerVars, osVars, watchVars, stopVars>>

\* No slot, no task, no usable opencode, a read refused, or stopped.
PollEnds ==
  /\ phase \in {"look", "slot"}
  /\ phase' = "idle"
  /\ UNCHANGED <<storeVars, claim, batch, cur, left, workerVars, osVars, watchVars, stopVars>>

\* Fault: a missing batch id is held like any other.
FaultyNormalized(b) == {b}

\* normalizeTaskBatchId
Normalized(b) == {b} \ {NoBatch}

Dispatch ==
  /\ phase = "slot" /\ gateway = "up"
  /\ \E t \in TaskId :
        /\ ClaimNext(t, activeBatchIds)
        /\ claim' = t /\ batch' = tasks[t].batch
        /\ activeBatchIds' = activeBatchIds \cup Normalized(tasks[t].batch)
  /\ phase' = "claimed"
  /\ UNCHANGED <<cur, left, runningTasks, osVars, watchVars, stopVars>>

\* Fault: the batch is not released.
FaultyRelease(next) ==
  /\ UNCHANGED activeBatchIds
  /\ batch' = NoBatch
  /\ phase' = next /\ claim' = 0 /\ cur' = 0

\* The loop goes on (and ends at once if stopped) with the start given up.
Release(next) ==
  /\ activeBatchIds' = activeBatchIds \ {batch}
  /\ batch' = NoBatch
  /\ phase' = next /\ claim' = 0 /\ cur' = 0

HandBackClaim ==
  /\ phase = "claimed" /\ gateway = "stopping"
  /\ ResetToPending({claim})
  /\ Release("idle")
  /\ UNCHANGED <<left, runningTasks, osVars, watchVars, stopVars>>

StartRun ==
  /\ phase = "claimed"
  /\ CreateRun(claim)
  /\ phase' = "spawn" /\ claim' = 0 /\ cur' = nextRun
  /\ UNCHANGED <<batch, left, workerVars, osVars, watchVars, stopVars>>

StartFails ==
  /\ phase = "claimed"
  /\ Fail(claim) \/ UNCHANGED storeVars
  /\ Release("look")
  /\ UNCHANGED <<left, runningTasks, osVars, watchVars, stopVars>>

HandBackRun ==
  /\ phase = "spawn" /\ gateway = "stopping"
  /\ CloseRun(cur)
  /\ phase' = "handback"
  /\ UNCHANGED <<claim, batch, cur, left, workerVars, osVars, watchVars, stopVars>>

HandBack ==
  /\ phase = "handback"
  /\ ResetToPending({runs[r].task : r \in {cur} \cap DOMAIN runs}) \/ UNCHANGED storeVars
  /\ Release("idle")
  /\ UNCHANGED <<left, runningTasks, osVars, watchVars, stopVars>>

\* A task that can never run (forbidden agent, bad directory or arguments);
\* a refusal of the transition is ignored.
Reject ==
  /\ phase = "spawn"
  /\ \/ FailRun(cur, TRUE)
     \/ ~(OpenRun(cur) /\ RunningTask(runs[cur].task)) /\ UNCHANGED storeVars
  /\ Release("look")
  /\ UNCHANGED <<left, runningTasks, osVars, watchVars, stopVars>>

\* The launcher cannot be spawned; the compensation may fail as well.
SpawnFails ==
  /\ phase = "spawn"
  /\ \/ FailRun(cur, FALSE)
     \/ CloseRun(cur) /\ ~RunningTask(runs[cur].task)
     \/ UNCHANGED storeVars
  /\ Release("look")
  /\ UNCHANGED <<left, runningTasks, osVars, watchVars, stopVars>>

Spawn ==
  /\ phase = "spawn" /\ gateway = "up"
  /\ cur \in DOMAIN runs
  /\ runningTasks' =
       [r \in DOMAIN runningTasks \cup {cur} |->
          IF r = cur
          THEN [task |-> runs[cur].task, batch |-> batch, term |-> "none", kill |-> "no",
                quarantined |-> FALSE, drained |-> FALSE, closed |-> FALSE, settle |-> "no"]
          ELSE runningTasks[r]]
  /\ group' = [group EXCEPT ![cur] = "gate"]
  /\ phase' = "record" /\ batch' = NoBatch
  /\ UNCHANGED <<storeVars, claim, cur, left, activeBatchIds, childPid, protocol, watchVars, stopVars>>

\* updatePid, which refuses a run that is closed.
RecordPid ==
  /\ phase = "record"
  /\ OpenRun(cur)
  /\ childPid' = childPid \cup {cur}
  /\ phase' = "release"
  /\ UNCHANGED <<storeVars, claim, batch, cur, left, workerVars, protocol, group, watchVars, stopVars>>

\* Fault: START is sent before the pid is recorded.
FaultyMayStart == phase \in {"record", "release"}

MayStart == phase = "release"

\* START is written; an error may be reported all the same.
SendStart ==
  /\ MayStart
  /\ group' = [group EXCEPT ![cur] = IF @ = "gate" THEN "told" ELSE @]
  /\ \/ phase' = "look" /\ cur' = 0
     \/ phase' = "abort" /\ UNCHANGED cur
  /\ UNCHANGED <<storeVars, claim, batch, left, workerVars, childPid, protocol, watchVars, stopVars>>

\* The pid cannot be recorded, or START cannot be written.
StartLost ==
  /\ phase \in {"record", "release"}
  /\ phase' = "abort"
  /\ UNCHANGED <<storeVars, claim, batch, cur, left, workerVars, osVars, watchVars, stopVars>>

Abort ==
  /\ phase = "abort"
  /\ IF cur \in DOMAIN runningTasks
     THEN Terminate(cur, "failure", "SIGTERM")
     ELSE UNCHANGED <<runningTasks, group>>
  /\ phase' = "aborting"
  /\ UNCHANGED <<storeVars, claim, batch, cur, left, activeBatchIds, childPid, protocol, watchVars, stopVars>>

Aborted ==
  /\ phase = "aborting" /\ ~Ending(cur)
  /\ phase' = "look" /\ cur' = 0
  /\ UNCHANGED <<storeVars, claim, batch, left, workerVars, osVars, watchVars, stopVars>>

-----------------------------------------------------------------------------
(* Worker.stop and the shutdown around it.                                 *)

\* The Watchdog has been stopped before, and its check awaited.
GatewayStop ==
  /\ gateway = "up" /\ dying = 0
  /\ gateway' = "stopping" /\ halt' = "grace"
  /\ todo' = {}
  /\ UNCHANGED <<storeVars, interrupted, loopVars, workerVars, osVars, dying>>

\* The poll cycle has been awaited, and then the grace period.
GraceEnds ==
  /\ halt = "grace" /\ phase = "idle"
  /\ halt' = "kill" /\ left' = DOMAIN runningTasks
  /\ UNCHANGED <<storeVars, gateway, interrupted, phase, claim, batch, cur, workerVars, osVars, watchVars>>

StopEntry ==
  /\ halt = "kill"
  /\ \E r \in left :
        /\ left' = left \ {r}
        /\ IF r \in DOMAIN runningTasks
           THEN Terminate(r, "shutdown", "SIGTERM")
           ELSE UNCHANGED <<runningTasks, group>>
  /\ UNCHANGED <<storeVars, phase, claim, batch, cur, activeBatchIds, childPid, protocol, watchVars, stopVars>>

Stopped ==
  /\ halt = "kill" /\ left = {}
  /\ \A r \in DOMAIN runningTasks : ~Ending(r)
  /\ halt' = "close"
  /\ UNCHANGED <<storeVars, gateway, interrupted, loopVars, workerVars, osVars, watchVars>>

\* A failing step of the shutdown is recorded, and the next one taken.
Requeue ==
  /\ halt = "close"
  /\ \E r \in interrupted :
        /\ InterruptRun(r) \/ UNCHANGED storeVars
        /\ interrupted' = interrupted \ {r}
  /\ UNCHANGED <<gateway, halt, loopVars, workerVars, osVars, watchVars>>

Exit == halt = "close" /\ interrupted = {} /\ Vanish

-----------------------------------------------------------------------------
(* The Watchdog's heartbeat check.                                         *)

\* getStaleRuns.  Any run may look stale but the one being created: it is
\* registered in the event that creates it.
Check ==
  /\ gateway = "up" /\ todo = {} /\ dying = 0
  /\ \E S \in SUBSET {r \in DOMAIN runs : OpenRun(r) /\ ~(phase = "spawn" /\ r = cur)} :
        /\ S # {}
        /\ todo' = {<<r, r \in childPid>> : r \in S}
  /\ UNCHANGED <<storeVars, dying, loopVars, workerVars, osVars, stopVars>>

\* Fault: the Watchdog does not ask the Worker.
FaultyUnowned(r) == TRUE

Unowned(r) == r \notin DOMAIN runningTasks

\* Owned, quarantined, failed, or the check is stopped.
Skip ==
  /\ dying = 0
  /\ \E stale \in todo : todo' = todo \ {stale}
  /\ UNCHANGED <<storeVars, dying, loopVars, workerVars, osVars, stopVars>>

\* Fault: the launcher's pid is looked at, not its group.
FaultyAbsent(r, known) ==
  \/ ~known /\ protocol[r] \in {"guardian", "token"}
  \/ known /\ protocol[r] # "unknown" /\ group[r] \in {"loose", "gone"}

\* Fault: no pid is taken for no process, under any protocol.
RashAbsent(r, known) == ~known \/ group[r] = "gone"

\* The Watchdog takes it that nothing of the run is left: the launcher never
\* got START, or its group is seen gone.
Absent(r, known) ==
  \/ ~known /\ protocol[r] \in {"guardian", "token"}
  \/ known /\ protocol[r] # "unknown" /\ group[r] = "gone"

Recover ==
  /\ dying = 0
  /\ \E r \in RunId, known \in BOOLEAN :
        /\ <<r, known>> \in todo
        /\ Unowned(r) /\ Absent(r, known)
        /\ RecoverRun(r)
        /\ todo' = todo \ {<<r, known>>}
  /\ UNCHANGED <<dying, loopVars, workerVars, osVars, stopVars>>

\* Fault: the identity is not asked for.
FaultyIdentified(r) == group[r] \in LeaderAlive

\* The launcher's command line carries the identity of the run.
Identified(r) == protocol[r] = "token" /\ group[r] \in LeaderAlive

KillStale ==
  /\ dying = 0
  /\ \E r \in RunId :
        /\ <<r, TRUE>> \in todo
        /\ Unowned(r) /\ Identified(r)
        /\ group' = [group EXCEPT ![r] = "killed"]
        /\ todo' = todo \ {<<r, TRUE>>} /\ dying' = r
  /\ UNCHANGED <<storeVars, loopVars, workerVars, childPid, protocol, stopVars>>

RecoverKilled ==
  /\ dying # 0 /\ group[dying] = "gone"
  /\ RecoverRun(dying)
  /\ dying' = 0
  /\ UNCHANGED <<todo, loopVars, workerVars, osVars, stopVars>>

\* Five seconds after SIGKILL it is still there, or cannot be recovered.
LeaveKilled ==
  /\ dying # 0
  /\ dying' = 0
  /\ UNCHANGED <<storeVars, todo, loopVars, workerVars, osVars, stopVars>>

-----------------------------------------------------------------------------
(* Processes (external).                                                   *)

Becomes(r, from, to) ==
  /\ group[r] = from
  /\ group' = [group EXCEPT ![r] = to]
  /\ UNCHANGED <<storeVars, memory, childPid, protocol>>

\* START arrives, or the pipe closes, with the Worker or by its hand.
LauncherStarts(r) == Becomes(r, "told", "work")
LauncherLeaves(r) == Becomes(r, "gate", "gone") \/ Becomes(r, "told", "gone")
TreeEnds(r) == Becomes(r, "work", "drained") \/ Becomes(r, "loose", "gone")
LauncherExits(r) == Becomes(r, "drained", "gone")
LauncherLost(r) == Becomes(r, "work", "loose")
GroupDies(r) == Becomes(r, "killed", "gone")

Processes ==
  \E r \in RunId :
     \/ LauncherStarts(r) \/ LauncherLeaves(r) \/ TreeEnds(r)
     \/ LauncherExits(r) \/ LauncherLost(r) \/ GroupDies(r)

Entries ==
  \E r \in RunId :
     \/ KillSucceeds(r) \/ KillEscalates(r) \/ KillFails(r) \/ Commit(r) \/ GiveUp(r)
     \/ DrainProof(r) \/ ChildClose(r) \/ Timeout(r)

Cycle ==
  \/ Poll \/ Reconcile \/ Reconciled \/ Look \/ PollEnds \/ Dispatch \/ HandBackClaim
  \/ StartRun \/ StartFails \/ HandBackRun \/ HandBack \/ Reject \/ SpawnFails \/ Spawn
  \/ RecordPid \/ SendStart \/ StartLost \/ Abort \/ Aborted

Watchdog == Check \/ Skip \/ Recover \/ KillStale \/ RecoverKilled \/ LeaveKilled

Shutdown == GatewayStop \/ GraceEnds \/ StopEntry \/ Stopped \/ Requeue \/ Exit

Next ==
  \/ Client \/ Abandon \/ Time \/ Retention
  \/ GatewayStart \/ GatewayReady \/ Crash \/ Shutdown
  \/ Cycle \/ Entries \/ Watchdog \/ Processes

Spec == Init /\ [][Next]_vars

-----------------------------------------------------------------------------
(* Properties.                                                             *)

\* A process of the run may be executing OpenCode.
Executing(r) == group[r] \in {"work", "drained", "loose", "killed"}

\* Nobody closes a run while a process of its group may still be at work:
\* not a settlement, a timeout, a cancellation, a shutdown, the Watchdog
\* after a crash, or an operator.
ClosedMeansGone == \A r \in RunId : Executing(r) => OpenRun(r)

\* Two executions of one task, or of one batch, are never at work together,
\* although one may be a leftover of a Gateway that crashed.
ExecutionsSerial ==
  \A r, s \in RunId : Executing(r) /\ Executing(s) /\ r # s =>
     /\ runs[r].task # runs[s].task
     /\ LET b == tasks[runs[r].task].batch IN b # NoBatch => b # tasks[runs[s].task].batch

\* maxConcurrency bounds the process groups at work, not only the rows.
ProcessCap == Cardinality({r \in RunId : Executing(r)}) <= MaxConcurrency

\* OpenCode only runs under a launcher the database knows the pid of, so
\* that a later Gateway can find it (releases without a launcher apart).
Findable == \A r \in RunId : Executing(r) /\ protocol[r] \in {"guardian", "token"} => r \in childPid

\* An entry's run stays open until the Worker commits it: the Watchdog,
\* working on a list read earlier, leaves owned runs alone.
EntryOwnsOpenRun == \A r \in DOMAIN runningTasks : OpenRun(r)

\* The batches the Worker excludes are those of its entries and of the task
\* it is starting: none is released early and none is held for ever.
BatchesHeld ==
  activeBatchIds =
    {b \in Batches : b = batch \/ \E r \in DOMAIN runningTasks : runningTasks[r].batch = b}

\* A group that carries no identity of its run is never signalled: the pid
\* may have become another process's.
NoBlindSignal == \A r \in RunId : protocol[r] # "token" => group[r] # "killed"

\* This is an implementation of the queue.
Refines == Queue!Spec

-----------------------------------------------------------------------------
(* Fairness: the event loop takes its steps, timers fire, SIGKILL ends a   *)
(* group, an exit is noticed; nothing is asked of clients, of OpenCode, or *)
(* of an operator.                                                         *)

LoopFairness ==
  /\ WF_vars(Cycle)
  /\ WF_vars(GraceEnds \/ StopEntry \/ Stopped \/ Requeue \/ Exit)
  /\ \A r \in RunId :
        /\ WF_vars(KillSucceeds(r) \/ KillEscalates(r) \/ KillFails(r))
        /\ WF_vars(GiveUp(r))
        /\ WF_vars(Commit(r) /\ runningTasks[r].term = "shutdown")

ShutdownSpec == Spec /\ LoopFairness

\* An orderly shutdown ends, whether or not processes die and the database
\* answers: the poll cycle it waits for waits for terminations, those for
\* commits, and none of them for the shutdown.
ShutdownEnds == gateway = "stopping" ~> gateway = "down"

\* A signal, a commit or a recovery may be refused, though not for ever.
RecoveryFairness ==
  /\ LoopFairness
  /\ WF_vars(GatewayStart) /\ WF_vars(GatewayReady)
  /\ WF_vars(Skip) /\ WF_vars(RecoverKilled \/ LeaveKilled)
  /\ \A r \in RunId :
        /\ WF_vars(Timeout(r)) /\ WF_vars(ChildClose(r)) /\ WF_vars(Commit(r))
        /\ WF_vars(LauncherExits(r)) /\ WF_vars(GroupDies(r))
        /\ SF_vars(Reconcile /\ cur' = r /\ Ending(r)')
        /\ SF_vars(KillEscalates(r) /\ Ending(r)')
        /\ SF_vars(Check /\ \E known \in BOOLEAN : <<r, known>> \in todo')
        /\ SF_vars(Recover /\ OpenRun(r) /\ ~OpenRun(r)')
        /\ SF_vars(KillStale /\ dying' = r)

\* Under RecoveryFairness every run is closed in the end, by its Worker or
\* by the Watchdog of a later Gateway, unless the Gateway is stopped for ever
\* again or the tree has lost the launcher that proves whose it is.
RunsEnd ==
  RecoveryFairness =>
  \/ []<><<Crash \/ GatewayStop>>_vars
  \/ \A r \in RunId : OpenRun(r) ~> (~OpenRun(r) \/ group[r] = "loose")
=============================================================================
