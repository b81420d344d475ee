--------------------------- MODULE TaskQueueProofs ---------------------------
(* Theorems about TaskQueue, for every value of its constants.             *)
EXTENDS TaskQueue, FiniteSetTheorems, TLAPS

(***************************************************************************)
(* The inductive invariant.  DbOK speaks of the rows of tasks alone, so    *)
(* that it can be shown of the intermediate states of a transaction too.   *)
(***************************************************************************)
DbOK(db) ==
  /\ \A t \in DOMAIN db : db[t].status \in {"pending", "running", "failed"} =>
        db[t].retryCount <= db[t].maxRetries
  /\ \A t \in Waiting(db) : db[t].dependsOn # 0 =>
        /\ db[t].dependsOn \in DOMAIN db
        /\ db[db[t].dependsOn].cwd = db[t].cwd
        /\ db[db[t].dependsOn].status \notin {"dead_letter", "cancelled"}
  /\ \A t \in DOMAIN db : db[t].status = "running" /\ db[t].dependsOn # 0 =>
        /\ db[t].dependsOn \in DOMAIN db
        /\ db[db[t].dependsOn].cwd = db[t].cwd
        /\ db[db[t].dependsOn].status = "done"

\* Ids below the counters; an open run's task is stored, and running or
\* cancelled; no task has two open runs.
RunsOK ==
  /\ \A t \in DOMAIN tasks : t < nextTask
  /\ \A r \in DOMAIN runs : r < nextRun
  /\ \A r \in DOMAIN runs : OpenRun(r) =>
        /\ runs[r].task \in DOMAIN tasks
        /\ tasks[runs[r].task].status \in {"running", "cancelled"}
  /\ \A q, r \in DOMAIN runs : OpenRun(q) /\ OpenRun(r) /\ runs[q].task = runs[r].task => q = r

\* The claimed task is held by the Worker loop alone: no run yet, and
\* nobody but a client's cancel can have touched it.
ClaimOK ==
  /\ phase = "claimed" <=> claim # 0
  /\ gateway \in {"down", "starting"} => claim = 0
  /\ claim # 0 => /\ claim < nextTask
                  /\ \A r \in DOMAIN runs : OpenRun(r) => runs[r].task # claim
                  /\ claim \in DOMAIN tasks => tasks[claim].status \in {"running", "cancelled"}

\* The slot the Worker saw free stays free until it claims: nobody else
\* puts a task into execution.
SlotOK ==
  phase = "slot" => Cardinality({t \in DOMAIN tasks : Occupied(t)}) < MaxConcurrency

IInv == TypeOK /\ DbOK(tasks) /\ RunsOK /\ ClaimOK /\ BatchSerial /\ SlotOK /\ ConcurrencyCap

-----------------------------------------------------------------------------
(* Rows: what each row operation writes is a row again.                    *)

LEMMA RowTypes ==
  ASSUME NEW row \in TaskRow, NEW deadLetter
  PROVE  /\ \A s \in TaskStatus : Ended(row, s) \in TaskRow
         /\ Pending(row) \in TaskRow
         /\ Requeued(row) \in TaskRow
         /\ FailedRow(row, deadLetter) \in TaskRow
         /\ RecoveredRow(row) \in TaskRow
         /\ [row EXCEPT !.status = "running", !.finished = FALSE] \in TaskRow
         /\ [Pending(row) EXCEPT !.wait = FALSE] \in TaskRow
         /\ [row EXCEPT !.wait = FALSE] \in TaskRow
<1> USE DEF TaskRow, TaskStatus
<1>1. \A s \in TaskStatus : Ended(row, s) \in TaskRow
  BY DEF Ended
<1>3. Pending(row) \in TaskRow
  BY DEF Pending
<1>4. Requeued(row) \in TaskRow
  BY <1>3 DEF Requeued
<1>5. Counted(row) \in TaskRow
  BY DEF Counted
<1>6. /\ FailedRow(row, deadLetter) \in TaskRow
      /\ RecoveredRow(row) \in TaskRow
  <2> DEFINE counted == Counted(row)
  <2>1. Ended(counted, "dead_letter") \in TaskRow
    BY <1>5 DEF Ended
  <2>2. [counted EXCEPT !.status = "failed", !.wait = TRUE, !.finished = TRUE] \in TaskRow
    BY <1>5
  <2>3. [Pending(counted) EXCEPT !.wait = TRUE] \in TaskRow
    BY <1>5 DEF Pending
  <2> QED BY ONLY <2>1, <2>2, <2>3 DEF FailedRow, RecoveredRow
<1>7. /\ [row EXCEPT !.status = "running", !.finished = FALSE] \in TaskRow
      /\ [row EXCEPT !.wait = FALSE] \in TaskRow
  OBVIOUS
<1>8. [Pending(row) EXCEPT !.wait = FALSE] \in TaskRow
  BY <1>3
<1> QED BY <1>1, <1>3, <1>4, <1>6, <1>7, <1>8

LEMMA EditedRowType ==
  ASSUME NEW row \in TaskRow, NEW b \in Batches \cup {NoBatch}, NEW p \in Prios,
         NEW m \in RetryLimits, NEW exhausted \in BOOLEAN
  PROVE  EditedRow(row, b, p, m, exhausted) \in TaskRow
BY DEF EditedRow, TaskRow, TaskStatus

-----------------------------------------------------------------------------
(* Types.                                                                  *)

LEMMA CascadeType ==
  ASSUME NEW D \in SUBSET TaskId, NEW db \in [D -> TaskRow], NEW S, NEW p
  PROVE  /\ Bury(db, S) \in [D -> TaskRow]
         /\ Cascade(db, p) \in [D -> TaskRow]
<1>1. Bury(db, S) \in [D -> TaskRow]
  <2>1. ASSUME NEW t \in D
        PROVE  Ended(db[t], "dead_letter") \in TaskRow
    BY DEF Ended, TaskRow, TaskStatus
  <2> QED BY <2>1 DEF Bury
<1>2. Bury(db, Downstream(db, {p})) \in [D -> TaskRow]
  <2>1. ASSUME NEW t \in D
        PROVE  Ended(db[t], "dead_letter") \in TaskRow
    BY DEF Ended, TaskRow, TaskStatus
  <2> QED BY <2>1 DEF Bury
<1> QED BY <1>1, <1>2 DEF Cascade

\* Writing one row, with or without the cascade, keeps the tables typed.
LEMMA WriteType ==
  ASSUME StoreTypeOK, NEW t \in DOMAIN tasks, NEW row \in TaskRow
  PROVE  /\ [tasks EXCEPT ![t] = row] \in [DOMAIN tasks -> TaskRow]
         /\ Cascade([tasks EXCEPT ![t] = row], t) \in [DOMAIN tasks -> TaskRow]
<1>1. [tasks EXCEPT ![t] = row] \in [DOMAIN tasks -> TaskRow]
  BY DEF StoreTypeOK
<1> QED BY <1>1, CascadeType DEF StoreTypeOK

LEMMA CloseType ==
  ASSUME StoreTypeOK, NEW r \in DOMAIN runs, NEW status \in RunStatus, Close(r, status)
  PROVE  DOMAIN runs' = DOMAIN runs /\ runs' \in [DOMAIN runs -> RunRow]
BY DEF StoreTypeOK, Close, RunRow

\* What an operation must show of its new tables.
LEMMA TypeStep ==
  ASSUME StoreTypeOK, tasks' \in [DOMAIN tasks -> TaskRow],
         runs' \in [DOMAIN runs -> RunRow], UNCHANGED <<nextTask, nextRun>>
  PROVE  StoreTypeOK'
BY DEF StoreTypeOK

\* A transaction that rewrites one row, and may cascade.
LEMMA RowStep ==
  ASSUME StoreTypeOK, NEW t \in DOMAIN tasks, NEW row \in TaskRow,
         \/ tasks' = [tasks EXCEPT ![t] = row]
         \/ tasks' = Cascade([tasks EXCEPT ![t] = row], t)
         \/ tasks' = tasks,
         \/ runs' = runs
         \/ \E r \in DOMAIN runs, s \in RunStatus : Close(r, s),
         UNCHANGED <<nextTask, nextRun>>
  PROVE  StoreTypeOK'
<1>1. tasks' \in [DOMAIN tasks -> TaskRow]
  BY WriteType DEF StoreTypeOK
<1>2. runs' \in [DOMAIN runs -> RunRow]
  <2>1. CASE runs' = runs
    BY <2>1 DEF StoreTypeOK
  <2>2. ASSUME NEW r \in DOMAIN runs, NEW s \in RunStatus, Close(r, s)
        PROVE  runs' \in [DOMAIN runs -> RunRow]
    BY <2>2, CloseType
  <2> QED BY <2>1, <2>2
<1> QED BY <1>1, <1>2, TypeStep

\* Adding and deleting rows.
LEMMA AddType ==
  ASSUME StoreTypeOK, NEW dep \in TaskId \cup {0}, NEW b \in Batches \cup {NoBatch},
         NEW c \in Cwds, NEW p \in Prios, NEW m \in RetryLimits, Add(dep, b, c, p, m)
  PROVE  StoreTypeOK'
<1> DEFINE new == [status |-> "pending", retryCount |-> 0, maxRetries |-> m,
                   wait |-> FALSE, finished |-> FALSE, dependsOn |-> dep,
                   batch |-> b, cwd |-> c, prio |-> p]
           D == DOMAIN tasks \cup {nextTask}
<1>1. new \in TaskRow
  BY DEF TaskRow, TaskStatus
<1>2. nextTask \in 1 .. MaxTasks /\ nextTask' = nextTask + 1
  BY StoreConstants DEF Add, StoreTypeOK
<1>3. tasks' = [t \in D |-> IF t = nextTask THEN new ELSE tasks[t]]
  BY DEF Add
<1> HIDE DEF new
<1>4. DOMAIN tasks' = D /\ tasks' \in [D -> TaskRow]
  BY <1>1, <1>3 DEF StoreTypeOK
<1>5. D \subseteq TaskId
  BY <1>2 DEF TaskId, StoreTypeOK
<1>6. nextTask' \in 1 .. MaxTasks + 1
  BY <1>2, StoreConstants
<1>7. UNCHANGED <<runs, nextRun>>
  BY DEF Add
<1> QED BY <1>4, <1>5, <1>6, <1>7 DEF StoreTypeOK

LEMMA CreateRunType ==
  ASSUME StoreTypeOK, NEW t, CreateRun(t)
  PROVE  StoreTypeOK'
<1> DEFINE D == DOMAIN runs \cup {nextRun}
<1>1. [task |-> t, status |-> "running"] \in RunRow
  BY DEF RunRow, RunStatus, CreateRun, StoreTypeOK
<1>2. nextRun \in 1 .. MaxRuns /\ nextRun' = nextRun + 1
  BY StoreConstants DEF CreateRun, StoreTypeOK
<1>3. DOMAIN runs' = D /\ runs' \in [D -> RunRow]
  BY <1>1 DEF StoreTypeOK, CreateRun
<1>4. D \subseteq RunId
  BY <1>2 DEF RunId, StoreTypeOK
<1>5. nextRun' \in 1 .. MaxRuns + 1
  BY <1>2, StoreConstants
<1> QED BY <1>3, <1>4, <1>5 DEF StoreTypeOK, CreateRun

LEMMA RemoveType ==
  ASSUME StoreTypeOK, NEW S, Remove(S)
  PROVE  StoreTypeOK'
BY DEF Remove, StoreTypeOK

LEMMA ResetType ==
  ASSUME StoreTypeOK, NEW S, ResetToPending(S)
  PROVE  StoreTypeOK'
<1>1. tasks' \in [DOMAIN tasks -> TaskRow]
  <2>1. ASSUME NEW t \in DOMAIN tasks
        PROVE  Pending(tasks[t]) \in TaskRow
    BY DEF Pending, TaskRow, TaskStatus, StoreTypeOK
  <2> QED BY <2>1 DEF ResetToPending, StoreTypeOK
<1> QED BY <1>1, TypeStep DEF ResetToPending, StoreTypeOK

LEMMA RetryBatchType ==
  ASSUME StoreTypeOK, NEW b, RetryBatch(b)
  PROVE  StoreTypeOK'
<1>1. tasks' \in [DOMAIN tasks -> TaskRow]
  <2>1. ASSUME NEW t \in DOMAIN tasks
        PROVE  Requeued(tasks[t]) \in TaskRow
    BY DEF Requeued, Pending, TaskRow, TaskStatus, StoreTypeOK
  <2> QED BY <2>1 DEF RetryBatch, StoreTypeOK
<1> QED BY <1>1, TypeStep DEF RetryBatch, StoreTypeOK

LEMMA ResolveType ==
  ASSUME StoreTypeOK, ResolveBlocked
  PROVE  StoreTypeOK'
<1> PICK S : tasks' = Bury(tasks, S)
  BY DEF ResolveBlocked
<1>1. tasks' \in [DOMAIN tasks -> TaskRow]
  BY CascadeType DEF StoreTypeOK
<1> QED BY <1>1, TypeStep DEF ResolveBlocked, StoreTypeOK

\* Everything that may happen to an execution rewrites at most one row.
LEMMA SettleType ==
  ASSUME StoreTypeOK, NEW r \in RunId, Settle(r) \/ InterruptRun(r) \/ CloseRun(r)
  PROVE  StoreTypeOK'
<1> DEFINE t == runs[r].task
<1> USE DEF OpenRun, RunningTask, RunStatus
<1>a. ASSUME RunningTask(t)
      PROVE  /\ Ended(tasks[t], "done") \in TaskRow
             /\ \A deadLetter : FailedRow(tasks[t], deadLetter) \in TaskRow
             /\ RecoveredRow(tasks[t]) \in TaskRow
             /\ [Pending(tasks[t]) EXCEPT !.wait = FALSE] \in TaskRow
  <2>1. tasks[t] \in TaskRow /\ "done" \in TaskStatus
    BY <1>a DEF StoreTypeOK, TaskStatus
  <2> HIDE DEF t
  <2> QED BY <2>1, RowTypes
<1>1. CASE CompleteRun(r)
  <2>1. tasks' = [tasks EXCEPT ![t] = Ended(tasks[t], "done")]
    BY <1>1 DEF CompleteRun
  <2> QED BY <1>a, <1>1, <2>1, RowStep DEF CompleteRun
<1>2. ASSUME NEW deadLetter \in BOOLEAN, FailRun(r, deadLetter)
      PROVE  StoreTypeOK'
  <2>1. tasks' = Cascade([tasks EXCEPT ![t] = FailedRow(tasks[t], deadLetter)], t)
    BY <1>2 DEF FailRun
  <2> QED BY <1>a, <1>2, <2>1, RowStep DEF FailRun
<1>3. CASE RecoverRun(r)
  <2>1. CASE RunningTask(t)
    <3>1. tasks' = Cascade([tasks EXCEPT ![t] = RecoveredRow(tasks[t])], t)
      BY <1>3, <2>1 DEF RecoverRun
    <3> QED BY <1>a, <1>3, <2>1, <3>1, RowStep DEF RecoverRun
  <2>2. CASE ~RunningTask(t)
    BY <1>3, <2>2, CloseType, TypeStep DEF RecoverRun, StoreTypeOK
  <2> QED BY <2>1, <2>2
<1>4. CASE InterruptRun(r)
  <2>1. CASE RunningTask(t)
    <3>1. tasks' = [tasks EXCEPT ![t] = [Pending(tasks[t]) EXCEPT !.wait = FALSE]]
      BY <1>4, <2>1 DEF InterruptRun
    <3> QED BY <1>a, <1>4, <2>1, <3>1, RowStep DEF InterruptRun
  <2>2. CASE ~RunningTask(t)
    BY <1>4, <2>2, CloseType, TypeStep DEF InterruptRun, StoreTypeOK
  <2> QED BY <2>1, <2>2
<1>5. CASE CloseRun(r)
  BY <1>5, CloseType, TypeStep DEF CloseRun, StoreTypeOK
<1> QED BY <1>1, <1>2, <1>3, <1>4, <1>5 DEF Settle

LEMMA ClientType ==
  ASSUME StoreTypeOK, Client
  PROVE  StoreTypeOK'
<1> USE DEF StoreTypeOK
<1>1. CASE ClientAdd
  BY <1>1, AddType DEF ClientAdd
<1>2. ASSUME NEW t \in TaskId, NEW b \in Batches \cup {NoBatch}, NEW p \in Prios,
             NEW m \in RetryLimits, Update(t, b, p, m)
      PROVE  StoreTypeOK'
  <2> DEFINE row == EditedRow(tasks[t], b, p, m, Exhausted(t, m))
  <2>1. t \in DOMAIN tasks /\ tasks[t] \in TaskRow
    BY <1>2 DEF Update
  <2>2. Exhausted(t, m) \in BOOLEAN
    BY DEF Exhausted
  <2>3. row \in TaskRow
    BY <2>1, <2>2, EditedRowType
  <2>4. \/ tasks' = [tasks EXCEPT ![t] = row]
        \/ tasks' = Cascade([tasks EXCEPT ![t] = row], t)
    BY <1>2 DEF Update
  <2> HIDE DEF row
  <2> QED BY <1>2, <2>1, <2>3, <2>4, RowStep DEF Update
<1>3. ASSUME NEW t \in TaskId, Cancel(t)
      PROVE  StoreTypeOK'
  <2>1. Ended(tasks[t], "cancelled") \in TaskRow
    BY <1>3, RowTypes DEF Cancel, TaskStatus
  <2>2. tasks' = Cascade([tasks EXCEPT ![t] = Ended(tasks[t], "cancelled")], t)
    BY <1>3 DEF Cancel
  <2> QED BY <1>3, <2>1, <2>2, RowStep DEF Cancel
<1>4. ASSUME NEW t \in TaskId, Retry(t)
      PROVE  StoreTypeOK'
  <2>1. Requeued(tasks[t]) \in TaskRow
    BY <1>4, RowTypes DEF Retry
  <2>2. tasks' = [tasks EXCEPT ![t] = Requeued(tasks[t])]
    BY <1>4 DEF Retry
  <2> QED BY <1>4, <2>1, <2>2, RowStep DEF Retry
<1>5. CASE ClientRetryBatch
  BY <1>5, RetryBatchType DEF ClientRetryBatch
<1>6. CASE ClientDelete
  BY <1>6, RemoveType DEF ClientDelete, Delete
<1>7. CASE ClientAbandon
  BY <1>7, SettleType DEF ClientAbandon
<1> QED BY <1>1, <1>2, <1>3, <1>4, <1>5, <1>6, <1>7 DEF Client, ClientUpdate, ClientCancel, ClientRetry

LEMMA ClaimType ==
  ASSUME StoreTypeOK, NEW t, NEW excluded, ClaimNext(t, excluded)
  PROVE  StoreTypeOK' /\ t \in DOMAIN tasks
<1>1. t \in DOMAIN tasks
  BY DEF ClaimNext, Runnable, Waiting
<1>2. [tasks[t] EXCEPT !.status = "running", !.finished = FALSE] \in TaskRow
  BY <1>1, RowTypes DEF StoreTypeOK
<1>3. tasks' = [tasks EXCEPT ![t] = [tasks[t] EXCEPT !.status = "running", !.finished = FALSE]]
  BY DEF ClaimNext
<1> QED BY <1>1, <1>2, <1>3, RowStep DEF ClaimNext

LEMMA FailType ==
  ASSUME StoreTypeOK, NEW t, Fail(t)
  PROVE  StoreTypeOK'
<1>1. t \in DOMAIN tasks
  BY DEF Fail, RunningTask
<1>2. FailedRow(tasks[t], FALSE) \in TaskRow
  BY <1>1, RowTypes DEF StoreTypeOK
<1>3. tasks' = Cascade([tasks EXCEPT ![t] = FailedRow(tasks[t], FALSE)], t)
  BY DEF Fail
<1> QED BY <1>1, <1>2, <1>3, RowStep DEF Fail

LEMMA BackoffType ==
  ASSUME StoreTypeOK, NEW t, BackoffElapses(t)
  PROVE  StoreTypeOK'
<1>1. [tasks[t] EXCEPT !.wait = FALSE] \in TaskRow
  BY RowTypes DEF BackoffElapses, StoreTypeOK
<1>2. tasks' = [tasks EXCEPT ![t] = [tasks[t] EXCEPT !.wait = FALSE]]
  BY DEF BackoffElapses
<1> QED BY <1>1, <1>2, RowStep DEF BackoffElapses

LEMMA TypeNext ==
  ASSUME TypeOK, [Next]_vars
  PROVE  TypeOK'
<1> USE DEF TypeOK
<1>0. CASE UNCHANGED vars
  BY <1>0 DEF vars, StoreTypeOK
<1>1. CASE Client
  BY <1>1, ClientType DEF Client, queueVars
<1>2. CASE GatewayStart
  BY <1>2, ResetType DEF GatewayStart, ResetOrphans
<1>3. CASE GatewayReady
  BY <1>3, ResolveType DEF GatewayReady
<1>4. CASE GatewayStop
  BY <1>4 DEF GatewayStop, storeVars, StoreTypeOK
<1>5. CASE GatewayExit
  BY <1>5 DEF GatewayExit, storeVars, StoreTypeOK
<1>6. CASE Poll
  BY <1>6, ResetType DEF Poll, ResetOrphans
<1>7. CASE Look
  BY <1>7 DEF Look, storeVars, StoreTypeOK
<1>8. CASE Dispatch
  BY <1>8, ClaimType DEF Dispatch
<1>9. CASE NoDispatch
  BY <1>9 DEF NoDispatch, storeVars, StoreTypeOK
<1>10. CASE StartRun
  BY <1>10, CreateRunType DEF StartRun
<1>11. CASE StartFails
  <2>1. StoreTypeOK'
    BY <1>11, FailType DEF StartFails, storeVars, StoreTypeOK
  <2> QED BY <1>11, <2>1 DEF StartFails
<1>12. CASE HandBack
  BY <1>12, ResetType DEF HandBack
<1>13. CASE Execution
  BY <1>13, SettleType DEF Execution, queueVars
<1>14. CASE Shutdown
  BY <1>14, SettleType DEF Shutdown, queueVars
<1>15. CASE Retention
  BY <1>15, RemoveType DEF Retention, Cleanup, queueVars
<1>16. CASE Backoff
  BY <1>16, BackoffType DEF Backoff, queueVars
<1> QED BY <1>0, <1>1, <1>2, <1>3, <1>4, <1>5, <1>6, <1>7, <1>8, <1>9, <1>10, <1>11, <1>12,
           <1>13, <1>14, <1>15, <1>16 DEF Next

\* Whatever clients, the Gateway and crashes do, the tables hold rows of
\* their schema, ids stay below the counters' bounds, and the Worker loop is
\* in one of its phases.
THEOREM TypeCorrect == Spec => []TypeOK
<1>1. Init => TypeOK
  BY StoreConstants DEF Init, StoreInit, TypeOK, StoreTypeOK, TaskId, RunId
<1> QED BY <1>1, TypeNext, PTL DEF Spec

-----------------------------------------------------------------------------
(* Dependencies and budgets: what a transaction must do to keep DbOK.      *)

\* Downstream is closed: what waits for a member, or for a root, is one.
LEMMA DownstreamClosed ==
  ASSUME NEW db, NEW roots, NEW t \in Waiting(db),
         db[t].dependsOn \in roots \cup Downstream(db, roots)
  PROVE  t \in Downstream(db, roots)
<1>1. ASSUME NEW S \in SUBSET Waiting(db),
             \A u \in Waiting(db) : db[u].dependsOn \in roots \cup S => u \in S
      PROVE  t \in S
  <2>1. db[t].dependsOn \in roots \cup S
    BY <1>1 DEF Downstream
  <2> QED BY <1>1, <2>1
<1> QED BY <1>1 DEF Downstream

\* A transaction that ends nothing: the rows it revives have a dependency
\* to wait for, the rows it starts have it done.
LEMMA LiveStep ==
  ASSUME NEW D, NEW db \in [D -> TaskRow], NEW new \in [D -> TaskRow], DbOK(db),
         \A t \in D : new[t].dependsOn = db[t].dependsOn /\ new[t].cwd = db[t].cwd,
         \A t \in D : db[t].status = "done" => new[t].status = "done",
         \A t \in D : new[t].status \in {"dead_letter", "cancelled"} => new[t].status = db[t].status,
         \A t \in D : new[t].status \in {"pending", "running", "failed"} =>
            new[t].retryCount <= new[t].maxRetries,
         \A t \in D : new[t].status \in {"pending", "failed"} /\ db[t].dependsOn # 0 =>
            \/ db[t].status \in {"pending", "failed", "running"}
            \/ /\ db[t].dependsOn \in D
               /\ db[db[t].dependsOn].cwd = db[t].cwd
               /\ new[db[t].dependsOn].status \notin {"dead_letter", "cancelled"},
         \A t \in D : new[t].status = "running" /\ db[t].dependsOn # 0 =>
            \/ db[t].status = "running"
            \/ /\ db[t].dependsOn \in D
               /\ db[db[t].dependsOn].cwd = db[t].cwd
               /\ db[db[t].dependsOn].status = "done"
  PROVE  DbOK(new)
<1>1. \A t \in Waiting(new) : new[t].dependsOn # 0 =>
        /\ new[t].dependsOn \in D
        /\ new[new[t].dependsOn].cwd = new[t].cwd
        /\ new[new[t].dependsOn].status \notin {"dead_letter", "cancelled"}
  <2> SUFFICES ASSUME NEW t \in D, new[t].status \in {"pending", "failed"}, db[t].dependsOn # 0
               PROVE  /\ db[t].dependsOn \in D
                      /\ db[db[t].dependsOn].cwd = db[t].cwd
                      /\ new[db[t].dependsOn].status \notin {"dead_letter", "cancelled"}
    BY DEF Waiting
  <2>1. CASE db[t].status \in {"pending", "failed"}
    BY <2>1 DEF DbOK, Waiting
  <2>2. CASE db[t].status = "running"
    BY <2>2 DEF DbOK
  <2> QED BY <2>1, <2>2
<1>2. \A t \in D : new[t].status = "running" /\ new[t].dependsOn # 0 =>
        /\ new[t].dependsOn \in D
        /\ new[new[t].dependsOn].cwd = new[t].cwd
        /\ new[new[t].dependsOn].status = "done"
  BY DEF DbOK
<1> QED BY <1>1, <1>2 DEF DbOK

\* Burying a set of waiting tasks that is closed under "depends on", and
\* holds every waiting task that has nothing left to wait for.
LEMMA BuryOK ==
  ASSUME NEW D, NEW db \in [D -> TaskRow], NEW S \in SUBSET Waiting(db),
         \A t \in Waiting(db) : db[t].dependsOn \in S => t \in S,
         \A t \in D : db[t].status \in {"pending", "running", "failed"} =>
            db[t].retryCount <= db[t].maxRetries,
         \A t \in Waiting(db) \ S : db[t].dependsOn # 0 =>
            /\ db[t].dependsOn \in D
            /\ db[db[t].dependsOn].cwd = db[t].cwd
            /\ db[db[t].dependsOn].status \notin {"dead_letter", "cancelled"},
         \A t \in D : db[t].status = "running" /\ db[t].dependsOn # 0 =>
            /\ db[t].dependsOn \in D
            /\ db[db[t].dependsOn].cwd = db[t].cwd
            /\ db[db[t].dependsOn].status = "done"
  PROVE  DbOK(Bury(db, S))
<1> DEFINE new == Bury(db, S)
<1>1. /\ DOMAIN new = D
      /\ \A t \in D \ S : new[t] = db[t]
      /\ \A t \in S : new[t].status = "dead_letter" /\ new[t].cwd = db[t].cwd
  <2>1. S \subseteq D
    BY DEF Waiting
  <2>2. \A t \in D : new[t] = IF t \in S THEN Ended(db[t], "dead_letter") ELSE db[t]
    BY DEF Bury
  <2>3. \A t \in D : /\ Ended(db[t], "dead_letter").status = "dead_letter"
                     /\ Ended(db[t], "dead_letter").cwd = db[t].cwd
    BY DEF Ended, TaskRow
  <2>4. DOMAIN new = D
    BY DEF Bury
  <2> QED BY <2>1, <2>2, <2>3, <2>4
<1>2. \A t \in S : db[t].status \in {"pending", "failed"}
  BY DEF Waiting
<1>3. \A t \in D : new[t].cwd = db[t].cwd
  BY <1>1
<1> HIDE DEF new
<1>4. \A t \in Waiting(new) : t \in D \ S /\ t \in Waiting(db)
  BY <1>1 DEF Waiting
<1>5. \A t \in D : new[t].status = "running" => t \notin S
  BY <1>1
<1>6. DbOK(new)
  BY <1>1, <1>2, <1>3, <1>4, <1>5 DEF DbOK
<1> QED BY <1>6 DEF new

\* Ending a task that is not done, with the cascade.
LEMMA EndStep ==
  ASSUME NEW D, NEW db \in [D -> TaskRow], DbOK(db),
         NEW t \in D, db[t].status # "done",
         NEW row \in TaskRow, row.dependsOn = db[t].dependsOn, row.cwd = db[t].cwd,
         row.status \in {"dead_letter", "cancelled"}
  PROVE  DbOK(Cascade([db EXCEPT ![t] = row], t))
<1> DEFINE mid == [db EXCEPT ![t] = row]
           S == Downstream(mid, {t})
<1>1. /\ mid \in [D -> TaskRow]
      /\ mid[t] = row
      /\ \A u \in D \ {t} : mid[u] = db[u]
  OBVIOUS
<1>2. Cascade(mid, t) = Bury(mid, S)
  BY <1>1 DEF Cascade
<1> HIDE DEF mid
<1>3. S \in SUBSET Waiting(mid)
  BY DEF Downstream
<1>4. \A u \in Waiting(mid) : mid[u].dependsOn \in {t} \cup S => u \in S
  BY DownstreamClosed
<1> HIDE DEF S
<1>5. \A u \in Waiting(mid) : u \in Waiting(db) /\ u # t /\ u \in D
  BY <1>1 DEF Waiting
<1>6. \A u \in Waiting(mid) \ S : mid[u].dependsOn # 0 =>
        /\ mid[u].dependsOn \in D
        /\ mid[mid[u].dependsOn].cwd = mid[u].cwd
        /\ mid[mid[u].dependsOn].status \notin {"dead_letter", "cancelled"}
  BY <1>1, <1>4, <1>5 DEF DbOK
<1>7. \A u \in D : mid[u].status = "running" /\ mid[u].dependsOn # 0 =>
        /\ mid[u].dependsOn \in D
        /\ mid[mid[u].dependsOn].cwd = mid[u].cwd
        /\ mid[mid[u].dependsOn].status = "done"
  BY <1>1 DEF DbOK
<1>8. \A u \in D : mid[u].status \in {"pending", "running", "failed"} => mid[u].retryCount <= mid[u].maxRetries
  BY <1>1 DEF DbOK
<1>9. DbOK(Bury(mid, S))
  BY <1>1, <1>3, <1>4, <1>6, <1>7, <1>8, BuryOK
<1> QED BY <1>2, <1>9 DEF mid, S

\* What each row operation leaves alone, and what it sets.
SameTask(new, row) == new.dependsOn = row.dependsOn /\ new.cwd = row.cwd /\ new.batch = row.batch

LEMMA RowFields ==
  ASSUME NEW row \in TaskRow, NEW deadLetter
  PROVE  /\ \A s : Ended(row, s).status = s /\ SameTask(Ended(row, s), row)
         /\ Pending(row).status = "pending" /\ SameTask(Pending(row), row)
         /\ Pending(row).retryCount = row.retryCount /\ Pending(row).maxRetries = row.maxRetries
         /\ Requeued(row).status = "pending" /\ SameTask(Requeued(row), row)
         /\ Requeued(row).retryCount = 0
         /\ SameTask(FailedRow(row, deadLetter), row)
         /\ \/ FailedRow(row, deadLetter).status = "dead_letter"
            \/ /\ FailedRow(row, deadLetter).status = "failed"
               /\ FailedRow(row, deadLetter).retryCount <= FailedRow(row, deadLetter).maxRetries
         /\ SameTask(RecoveredRow(row), row)
         /\ \/ RecoveredRow(row).status = "dead_letter"
            \/ /\ RecoveredRow(row).status = "pending"
               /\ RecoveredRow(row).retryCount <= RecoveredRow(row).maxRetries
<1> USE DEF SameTask, TaskRow
<1>1. \A s : Ended(row, s).status = s /\ SameTask(Ended(row, s), row)
  BY DEF Ended
<1>2. /\ Pending(row).status = "pending" /\ SameTask(Pending(row), row)
      /\ Pending(row).retryCount = row.retryCount /\ Pending(row).maxRetries = row.maxRetries
      /\ Requeued(row).status = "pending" /\ SameTask(Requeued(row), row)
      /\ Requeued(row).retryCount = 0
  BY DEF Pending, Requeued
<1>3. /\ Counted(row).retryCount = row.retryCount + 1 /\ Counted(row).maxRetries = row.maxRetries
      /\ Counted(row) \in TaskRow
      /\ SameTask(Counted(row), row)
  BY DEF Counted
<1> DEFINE counted == Counted(row)
<1> HIDE DEF counted
<1>4. Ended(counted, "dead_letter").status = "dead_letter" /\ SameTask(Ended(counted, "dead_letter"), row)
  BY <1>3 DEF Ended, counted
<1> DEFINE failed == [counted EXCEPT !.status = "failed", !.wait = TRUE, !.finished = TRUE]
           recovered == [Pending(counted) EXCEPT !.wait = TRUE]
<1>5. failed.status = "failed" /\ SameTask(failed, row)
      /\ failed.retryCount = row.retryCount + 1 /\ failed.maxRetries = row.maxRetries
  BY <1>3 DEF counted
<1>6. recovered.status = "pending" /\ SameTask(recovered, row)
      /\ recovered.retryCount = row.retryCount + 1 /\ recovered.maxRetries = row.maxRetries
  BY <1>3 DEF counted, Pending
<1>7. row.retryCount \in Nat /\ row.maxRetries \in Nat
  BY StoreConstants
<1>8. \/ FailedRow(row, deadLetter) = Ended(counted, "dead_letter")
      \/ FailedRow(row, deadLetter) = failed /\ ~(row.retryCount + 1 > row.maxRetries)
  BY ONLY DEF FailedRow, counted
<1>9. \/ RecoveredRow(row) = Ended(counted, "dead_letter")
      \/ RecoveredRow(row) = recovered /\ ~(row.retryCount + 1 > row.maxRetries)
  BY ONLY DEF RecoveredRow, counted
<1>10. ~(row.retryCount + 1 > row.maxRetries) => row.retryCount + 1 <= row.maxRetries
  BY <1>7
<1> HIDE DEF failed, recovered
<1>11. /\ SameTask(FailedRow(row, deadLetter), row)
       /\ \/ FailedRow(row, deadLetter).status = "dead_letter"
          \/ /\ FailedRow(row, deadLetter).status = "failed"
             /\ FailedRow(row, deadLetter).retryCount <= FailedRow(row, deadLetter).maxRetries
  BY <1>4, <1>5, <1>8, <1>10
<1>12. /\ SameTask(RecoveredRow(row), row)
       /\ \/ RecoveredRow(row).status = "dead_letter"
          \/ /\ RecoveredRow(row).status = "pending"
             /\ RecoveredRow(row).retryCount <= RecoveredRow(row).maxRetries
  BY <1>4, <1>6, <1>9, <1>10
<1> QED BY ONLY <1>1, <1>2, <1>11, <1>12

LEMMA OtherRowFields ==
  ASSUME NEW row \in TaskRow, NEW b, NEW p, NEW m, NEW exhausted \in BOOLEAN
  PROVE  /\ EditedRow(row, b, p, m, exhausted).status = (IF exhausted THEN "dead_letter" ELSE row.status)
         /\ EditedRow(row, b, p, m, exhausted).dependsOn = row.dependsOn
         /\ EditedRow(row, b, p, m, exhausted).cwd = row.cwd
         /\ EditedRow(row, b, p, m, exhausted).batch = b
         /\ EditedRow(row, b, p, m, exhausted).retryCount = row.retryCount
         /\ EditedRow(row, b, p, m, exhausted).maxRetries = m
BY DEF EditedRow, TaskRow

\* LiveStep for a transaction that writes one row.
LEMMA LiveRow ==
  ASSUME NEW D, NEW db \in [D -> TaskRow], DbOK(db), NEW t \in D, NEW row \in TaskRow,
         SameTask(row, db[t]),
         db[t].status = "done" => row.status = "done",
         row.status \notin {"dead_letter", "cancelled"},
         row.status # "done" => row.retryCount <= row.maxRetries,
         row.status \in {"pending", "failed"} /\ row.dependsOn # 0 =>
            \/ db[t].status \in {"pending", "failed", "running"}
            \/ /\ row.dependsOn \in D
               /\ db[row.dependsOn].cwd = row.cwd
               /\ db[row.dependsOn].status \notin {"dead_letter", "cancelled"},
         row.status = "running" /\ row.dependsOn # 0 =>
            \/ db[t].status = "running"
            \/ /\ row.dependsOn \in D
               /\ db[row.dependsOn].cwd = row.cwd
               /\ db[row.dependsOn].status = "done"
  PROVE  DbOK([db EXCEPT ![t] = row])
<1> DEFINE new == [db EXCEPT ![t] = row]
<1>1. /\ new \in [D -> TaskRow]
      /\ new[t] = row
      /\ \A u \in D \ {t} : new[u] = db[u]
  OBVIOUS
<1> HIDE DEF new
<1>2. \A u \in D : new[u].dependsOn = db[u].dependsOn /\ new[u].cwd = db[u].cwd
  BY <1>1 DEF SameTask
<1>3. \A u \in D : db[u].status = "done" => new[u].status = "done"
  BY <1>1
<1>4. \A u \in D : new[u].status \in {"dead_letter", "cancelled"} => new[u].status = db[u].status
  BY <1>1
<1>5. \A u \in D : new[u].status \in {"pending", "running", "failed"} => new[u].retryCount <= new[u].maxRetries
  BY <1>1 DEF DbOK
<1>6. \A u \in D : new[u].status \in {"pending", "failed"} /\ db[u].dependsOn # 0 =>
         \/ db[u].status \in {"pending", "failed", "running"}
         \/ /\ db[u].dependsOn \in D
            /\ db[db[u].dependsOn].cwd = db[u].cwd
            /\ new[db[u].dependsOn].status \notin {"dead_letter", "cancelled"}
  BY <1>1 DEF SameTask
<1>7. \A u \in D : new[u].status = "running" /\ db[u].dependsOn # 0 =>
         \/ db[u].status = "running"
         \/ /\ db[u].dependsOn \in D
            /\ db[db[u].dependsOn].cwd = db[u].cwd
            /\ db[db[u].dependsOn].status = "done"
  BY <1>1 DEF SameTask
<1>8. DbOK(new)
  BY <1>1, <1>2, <1>3, <1>4, <1>5, <1>6, <1>7, LiveStep
<1> QED BY <1>8 DEF new

\* Both ways a counted failure goes: back into the queue, or to the end.
LEMMA CountedStep ==
  ASSUME NEW D, NEW db \in [D -> TaskRow], DbOK(db), NEW t \in D, db[t].status = "running",
         NEW row \in TaskRow, SameTask(row, db[t]),
         \/ row.status = "dead_letter"
         \/ row.status \in {"pending", "failed"} /\ row.retryCount <= row.maxRetries
  PROVE  DbOK(Cascade([db EXCEPT ![t] = row], t))
<1>1. CASE row.status = "dead_letter"
  BY <1>1, EndStep DEF SameTask
<1>2. CASE row.status \in {"pending", "failed"} /\ row.retryCount <= row.maxRetries
  <2>1. DbOK([db EXCEPT ![t] = row])
    BY <1>2, LiveRow
  <2>2. Cascade([db EXCEPT ![t] = row], t) = [db EXCEPT ![t] = row]
    BY <1>2 DEF Cascade
  <2> QED BY <2>1, <2>2
<1> QED BY <1>1, <1>2

-----------------------------------------------------------------------------
(* Each transaction keeps DbOK.                                            *)

LEMMA AddDb ==
  ASSUME IInv, NEW dep, NEW b, NEW c, NEW p, NEW m \in RetryLimits, Add(dep, b, c, p, m)
  PROVE  DbOK(tasks')
<1> DEFINE n == nextTask
<1>1. /\ n \notin DOMAIN tasks
      /\ DOMAIN tasks' = DOMAIN tasks \cup {n}
      /\ tasks'[n].status = "pending" /\ tasks'[n].dependsOn = dep /\ tasks'[n].cwd = c
      /\ tasks'[n].retryCount = 0 /\ tasks'[n].maxRetries = m
      /\ \A t \in DOMAIN tasks : tasks'[t] = tasks[t]
  BY DEF Add, IInv, RunsOK, TypeOK, StoreTypeOK, TaskId
<1>2. m >= 0
  BY StoreConstants
<1>3. dep # 0 => /\ dep \in DOMAIN tasks /\ tasks[dep].cwd = c
                 /\ tasks[dep].status \notin {"dead_letter", "cancelled"}
  BY DEF Add, Viable, Recoverable
<1>4. DbOK(tasks)
  BY DEF IInv
<1>5. \A t \in DOMAIN tasks' : tasks'[t].status \in {"pending", "running", "failed"} =>
        tasks'[t].retryCount <= tasks'[t].maxRetries
  BY <1>1, <1>2, <1>4 DEF DbOK
<1>6. \A t \in Waiting(tasks') : tasks'[t].dependsOn # 0 =>
        /\ tasks'[t].dependsOn \in DOMAIN tasks'
        /\ tasks'[tasks'[t].dependsOn].cwd = tasks'[t].cwd
        /\ tasks'[tasks'[t].dependsOn].status \notin {"dead_letter", "cancelled"}
  BY <1>1, <1>3, <1>4 DEF DbOK, Waiting
<1>7. \A t \in DOMAIN tasks' : tasks'[t].status = "running" /\ tasks'[t].dependsOn # 0 =>
        /\ tasks'[t].dependsOn \in DOMAIN tasks'
        /\ tasks'[tasks'[t].dependsOn].cwd = tasks'[t].cwd
        /\ tasks'[tasks'[t].dependsOn].status = "done"
  BY <1>1, <1>4 DEF DbOK
<1> QED BY <1>5, <1>6, <1>7 DEF DbOK

LEMMA UpdateDb ==
  ASSUME IInv, NEW t, NEW b \in Batches \cup {NoBatch}, NEW p \in Prios, NEW m \in RetryLimits,
         Update(t, b, p, m)
  PROVE  DbOK(tasks')
<1> DEFINE ex == Exhausted(t, m)
           row == EditedRow(tasks[t], b, p, m, ex)
           D == DOMAIN tasks
           new == [tasks EXCEPT ![t] = row]
<1>1. /\ t \in D /\ tasks \in [D -> TaskRow] /\ tasks[t] \in TaskRow
      /\ tasks[t].status \in {"pending", "failed", "dead_letter"}
  BY DEF Update, IInv, TypeOK, StoreTypeOK
<1>2. ex \in BOOLEAN
  BY DEF Exhausted
<1>4. tasks' = IF ex THEN Cascade(new, t) ELSE new
  BY DEF Update
<1>8. ~ex /\ tasks[t].status # "dead_letter" => tasks[t].retryCount <= m
  BY <1>1, StoreConstants DEF Exhausted, Waiting, TaskRow
<1> HIDE DEF ex
<1>3. /\ row \in TaskRow
      /\ row.status = (IF ex THEN "dead_letter" ELSE tasks[t].status)
      /\ row.dependsOn = tasks[t].dependsOn /\ row.cwd = tasks[t].cwd
      /\ row.retryCount = tasks[t].retryCount /\ row.maxRetries = m
  BY <1>1, <1>2, EditedRowType, OtherRowFields
<1>5. DbOK(tasks)
  BY DEF IInv
<1> HIDE DEF row
<1>6. CASE ex
  BY <1>1, <1>2, <1>3, <1>4, <1>5, <1>6, EndStep
<1>7. CASE ~ex
  <2>1. tasks[t].status # "dead_letter" => row.retryCount <= row.maxRetries
    BY <1>3, <1>7, <1>8
  <2>2. /\ new \in [D -> TaskRow] /\ new[t] = row
        /\ \A u \in D \ {t} : new[u] = tasks[u]
    BY <1>1, <1>3
  <2> HIDE DEF new
  <2>3. \A u \in D : /\ new[u].status = tasks[u].status
                     /\ new[u].dependsOn = tasks[u].dependsOn /\ new[u].cwd = tasks[u].cwd
    BY <1>3, <1>7, <2>2
  <2>4. \A u \in D : new[u].status \in {"pending", "running", "failed"} => new[u].retryCount <= new[u].maxRetries
    BY <1>1, <1>3, <1>5, <1>7, <2>1, <2>2 DEF DbOK
  <2>5. DbOK(new)
    BY <1>1, <1>5, <2>2, <2>3, <2>4, LiveStep
  <2> QED BY <1>4, <1>7, <2>5
<1> QED BY <1>6, <1>7

LEMMA RetryDb ==
  ASSUME IInv, NEW t, Retry(t)
  PROVE  DbOK(tasks')
<1> DEFINE row == Requeued(tasks[t])
<1>1. /\ t \in DOMAIN tasks /\ tasks \in [DOMAIN tasks -> TaskRow] /\ tasks[t] \in TaskRow
  BY DEF Retry, IInv, TypeOK, StoreTypeOK
<1>2. row \in TaskRow /\ SameTask(row, tasks[t]) /\ row.status = "pending" /\ row.retryCount = 0
  BY <1>1, RowFields, RowTypes
<1>3. tasks' = [tasks EXCEPT ![t] = row]
  BY DEF Retry
<1> HIDE DEF row
<1>4. row.maxRetries \in RetryLimits
  BY <1>2 DEF TaskRow
<1>7. row.retryCount <= row.maxRetries
  <2>1. row.maxRetries \in Nat
    BY <1>4, StoreConstants
  <2>2. \A n \in Nat : 0 <= n
    OBVIOUS
  <2> QED BY <1>2, <2>1, <2>2
<1>5. row.dependsOn # 0 => /\ row.dependsOn \in DOMAIN tasks
                           /\ tasks[row.dependsOn].cwd = row.cwd
                           /\ tasks[row.dependsOn].status \notin {"dead_letter", "cancelled"}
  BY <1>2 DEF Retry, Viable, Recoverable, SameTask
<1>6. DbOK(tasks) /\ tasks[t].status # "done"
  BY DEF IInv, Retry
<1> QED BY <1>1, <1>2, <1>3, <1>5, <1>6, <1>7, LiveRow

\* A task of a retried batch waits for one that is retried with it, or for
\* one that is still viable.
LEMMA RetryableSound ==
  ASSUME NEW b, NEW t \in Retryable(b), tasks[t].dependsOn # 0
  PROVE  /\ tasks[t].dependsOn \in DOMAIN tasks
         /\ tasks[tasks[t].dependsOn].cwd = tasks[t].cwd
         /\ \/ tasks[t].dependsOn \in Retryable(b)
            \/ /\ Viable(tasks, tasks[t].dependsOn, tasks[t].cwd)
               /\ tasks[tasks[t].dependsOn].status \notin {"dead_letter", "cancelled"}
<1> DEFINE C == {u \in DOMAIN tasks : tasks[u].batch = b /\ tasks[u].status \in {"failed", "dead_letter"}}
           Sound(u, S) ==
             \/ tasks[u].dependsOn \notin C /\ Viable(tasks, tasks[u].dependsOn, tasks[u].cwd)
             \/ tasks[u].dependsOn \in S /\ tasks[tasks[u].dependsOn].cwd = tasks[u].cwd
           R == Retryable(b)
<1>1. R = {u \in C : \A S \in SUBSET C : (\A v \in C : Sound(v, S) => v \in S) => u \in S}
  BY DEF Retryable
<1>2. Sound(t, R)
  <2> SUFFICES ASSUME ~Sound(t, R) PROVE FALSE
    OBVIOUS
  <2> HIDE DEF C
  <2>1. R \ {t} \in SUBSET C
    BY <1>1
  <2>2. ASSUME NEW v \in C, Sound(v, R \ {t})
        PROVE  v \in R \ {t}
    <3>1. Sound(v, R)
      BY <2>2
    <3>2. v # t
      BY <3>1
    <3>3. v \in R
      <4>1. ASSUME NEW S \in SUBSET C, \A w \in C : Sound(w, S) => w \in S
            PROVE  v \in S
        <5>1. R \subseteq S
          BY <1>1, <4>1
        <5>2. Sound(v, S)
          BY <3>1, <5>1
        <5> QED BY <4>1, <5>2, <2>2
      <4> QED BY <4>1, <1>1, <2>2
    <3> QED BY <3>2, <3>3
  <2>3. t \in R \ {t}
    BY <1>1, <2>1, <2>2
  <2> QED BY <2>3
<1>3. R \subseteq C /\ C \subseteq DOMAIN tasks
  BY <1>1
<1> QED BY <1>2, <1>3 DEF Viable, Recoverable

LEMMA RetryBatchDb ==
  ASSUME IInv, NEW b, RetryBatch(b)
  PROVE  DbOK(tasks')
<1> DEFINE R == Retryable(b)
           D == DOMAIN tasks
<1>1. /\ tasks \in [D -> TaskRow]
      /\ tasks' \in [D -> TaskRow]
      /\ DbOK(tasks)
      /\ \A t \in D : tasks' [t] = IF t \in R THEN Requeued(tasks[t]) ELSE tasks[t]
  <2>1. StoreTypeOK /\ DOMAIN tasks' = D
    BY DEF IInv, TypeOK, RetryBatch
  <2>2. StoreTypeOK'
    BY <2>1, RetryBatchType
  <2> QED BY <2>1, <2>2 DEF IInv, TypeOK, StoreTypeOK, RetryBatch
<1>2. \A t \in R : t \in D /\ tasks[t].status \in {"failed", "dead_letter"}
  BY DEF Retryable
<1>3. \A t \in R : /\ tasks' [t].status = "pending" /\ SameTask(tasks' [t], tasks[t])
                   /\ tasks' [t].retryCount = 0
  BY <1>1, <1>2, RowFields
<1>4. \A t \in D \ R : tasks' [t] = tasks[t]
  BY <1>1
<1>5. ASSUME NEW t \in R
      PROVE  tasks' [t].retryCount <= tasks' [t].maxRetries
  <2>1. tasks' [t].maxRetries \in Nat
    BY <1>1, <1>2, StoreConstants DEF TaskRow
  <2>2. \A n \in Nat : 0 <= n
    OBVIOUS
  <2> QED BY <1>3, <2>1, <2>2
<1>6. ASSUME NEW t \in R, tasks[t].dependsOn # 0
      PROVE  /\ tasks[t].dependsOn \in D
             /\ tasks[tasks[t].dependsOn].cwd = tasks[t].cwd
             /\ tasks' [tasks[t].dependsOn].status \notin {"dead_letter", "cancelled"}
  <2>1. /\ tasks[t].dependsOn \in D
        /\ tasks[tasks[t].dependsOn].cwd = tasks[t].cwd
        /\ \/ tasks[t].dependsOn \in R
           \/ tasks[tasks[t].dependsOn].status \notin {"dead_letter", "cancelled"}
    BY <1>6, RetryableSound
  <2> HIDE DEF R
  <2> QED BY <2>1, <1>3, <1>4
<1> HIDE DEF R
<1> DEFINE new == tasks'
<1>7. \A t \in D : new[t].dependsOn = tasks[t].dependsOn /\ new[t].cwd = tasks[t].cwd
  BY <1>3, <1>4 DEF SameTask
<1>8. \A t \in D : new[t].status \in {"pending", "running", "failed"} => new[t].retryCount <= new[t].maxRetries
  BY <1>1, <1>4, <1>5 DEF DbOK
<1>9. \A t \in D : tasks[t].status = "done" => new[t].status = "done"
  BY <1>2, <1>4
<1>10. \A t \in D : new[t].status \in {"dead_letter", "cancelled"} => new[t].status = tasks[t].status
  BY <1>3, <1>4
<1>11. \A t \in D : new[t].status \in {"pending", "failed"} /\ tasks[t].dependsOn # 0 =>
            \/ tasks[t].status \in {"pending", "failed", "running"}
            \/ /\ tasks[t].dependsOn \in D
               /\ tasks[tasks[t].dependsOn].cwd = tasks[t].cwd
               /\ new[tasks[t].dependsOn].status \notin {"dead_letter", "cancelled"}
  BY <1>4, <1>6
<1>12. \A t \in D : new[t].status = "running" => tasks[t].status = "running"
  BY <1>3, <1>4
<1> QED BY <1>1, <1>7, <1>8, <1>9, <1>10, <1>11, <1>12, LiveStep

LEMMA RemoveDb ==
  ASSUME IInv, NEW S, Remove(S),
         \A t \in DOMAIN tasks \ S : tasks[t].dependsOn \in S =>
            tasks[t].status \notin {"pending", "running", "failed"}
  PROVE  DbOK(tasks')
<1>1. /\ DOMAIN tasks' = DOMAIN tasks \ S
      /\ \A t \in DOMAIN tasks \ S : tasks' [t] = tasks[t]
      /\ DbOK(tasks)
  BY DEF Remove, IInv
<1>2. \A t \in Waiting(tasks') : t \in Waiting(tasks) /\ tasks[t].status \in {"pending", "failed"}
  BY <1>1 DEF Waiting
<1>3. \A t \in Waiting(tasks') : tasks' [t].dependsOn # 0 =>
        /\ tasks' [t].dependsOn \in DOMAIN tasks'
        /\ tasks' [tasks' [t].dependsOn].cwd = tasks' [t].cwd
        /\ tasks' [tasks' [t].dependsOn].status \notin {"dead_letter", "cancelled"}
  <2> TAKE t \in Waiting(tasks')
  <2>1. t \in DOMAIN tasks \ S /\ tasks' [t] = tasks[t]
    BY <1>1 DEF Waiting
  <2>2. tasks[t].dependsOn # 0 =>
        /\ tasks[t].dependsOn \in DOMAIN tasks \ S
        /\ tasks[tasks[t].dependsOn].cwd = tasks[t].cwd
        /\ tasks[tasks[t].dependsOn].status \notin {"dead_letter", "cancelled"}
    BY <1>1, <1>2, <2>1 DEF DbOK
  <2> QED BY <1>1, <2>1, <2>2
<1>4. \A t \in DOMAIN tasks' : tasks' [t].status = "running" /\ tasks' [t].dependsOn # 0 =>
        /\ tasks' [t].dependsOn \in DOMAIN tasks'
        /\ tasks' [tasks' [t].dependsOn].cwd = tasks' [t].cwd
        /\ tasks' [tasks' [t].dependsOn].status = "done"
  BY <1>1 DEF DbOK
<1>5. \A t \in DOMAIN tasks' : tasks' [t].status \in {"pending", "running", "failed"} =>
        tasks' [t].retryCount <= tasks' [t].maxRetries
  BY <1>1 DEF DbOK
<1> QED BY <1>3, <1>4, <1>5 DEF DbOK

\* What the cleanup takes, nothing stored outside it depends on.
LEMMA PurgeableClosed ==
  ASSUME NEW page, NEW u \in DOMAIN tasks, tasks[u].dependsOn \in Purgeable(page)
  PROVE  u \in Purgeable(page)
BY DEF Purgeable, Dependents

LEMMA ResetDb ==
  ASSUME IInv, NEW S, ResetToPending(S)
  PROVE  DbOK(tasks')
<1> DEFINE D == DOMAIN tasks
           new == tasks'
<1>1. tasks \in [D -> TaskRow] /\ DbOK(tasks) /\ StoreTypeOK
  BY DEF IInv, TypeOK, StoreTypeOK
<1>2. /\ new \in [D -> TaskRow]
      /\ \A t \in D : new[t] = IF t \in S /\ RunningTask(t) THEN Pending(tasks[t]) ELSE tasks[t]
  <2>1. StoreTypeOK'
    BY <1>1, ResetType
  <2> QED BY <2>1 DEF ResetToPending, StoreTypeOK
<1>3. ASSUME NEW t \in D
      PROVE  \/ new[t] = tasks[t]
             \/ /\ tasks[t].status = "running" /\ new[t].status = "pending"
                /\ SameTask(new[t], tasks[t])
                /\ new[t].retryCount = tasks[t].retryCount /\ new[t].maxRetries = tasks[t].maxRetries
  BY <1>1, <1>2, RowFields DEF RunningTask
<1> HIDE DEF new
<1>4. \A t \in D : new[t].dependsOn = tasks[t].dependsOn /\ new[t].cwd = tasks[t].cwd
  BY <1>3 DEF SameTask
<1>5. \A t \in D : new[t].status \in {"pending", "running", "failed"} => new[t].retryCount <= new[t].maxRetries
  BY <1>1, <1>3 DEF DbOK
<1>6. /\ \A t \in D : tasks[t].status = "done" => new[t].status = "done"
      /\ \A t \in D : new[t].status \in {"dead_letter", "cancelled"} => new[t].status = tasks[t].status
      /\ \A t \in D : new[t].status \in {"pending", "failed"} => tasks[t].status \in {"pending", "failed", "running"}
      /\ \A t \in D : new[t].status = "running" => tasks[t].status = "running"
  BY <1>3
<1>7. DbOK(new)
  BY <1>1, <1>2, <1>4, <1>5, <1>6, LiveStep
<1> QED BY <1>7 DEF new

LEMMA ResolveDb ==
  ASSUME StoreTypeOK, ResolveBlocked,
         \A t \in DOMAIN tasks : tasks[t].status \in {"pending", "running", "failed"} =>
            tasks[t].retryCount <= tasks[t].maxRetries,
         \A t \in DOMAIN tasks : tasks[t].status = "running" /\ tasks[t].dependsOn # 0 =>
            /\ tasks[t].dependsOn \in DOMAIN tasks
            /\ tasks[tasks[t].dependsOn].cwd = tasks[t].cwd
            /\ tasks[tasks[t].dependsOn].status = "done"
  PROVE  DbOK(tasks')
<1> DEFINE seeds == {t \in Waiting(tasks) : ~Viable(tasks, tasks[t].dependsOn, tasks[t].cwd)}
           S == seeds \cup Downstream(tasks, seeds)
<1>1. tasks' = Bury(tasks, S)
  BY DEF ResolveBlocked
<1>2. S \in SUBSET Waiting(tasks)
  BY DEF Downstream
<1>3. \A t \in Waiting(tasks) : tasks[t].dependsOn \in S => t \in S
  BY DownstreamClosed
<1>4. \A t \in Waiting(tasks) \ S : tasks[t].dependsOn # 0 =>
        /\ tasks[t].dependsOn \in DOMAIN tasks
        /\ tasks[tasks[t].dependsOn].cwd = tasks[t].cwd
        /\ tasks[tasks[t].dependsOn].status \notin {"dead_letter", "cancelled"}
  BY DEF Viable, Recoverable
<1> HIDE DEF S
<1>5. tasks \in [DOMAIN tasks -> TaskRow]
  BY DEF StoreTypeOK
<1> QED BY <1>1, <1>2, <1>3, <1>4, <1>5, BuryOK

LEMMA CountedFailureDb ==
  ASSUME IInv, NEW t, RunningTask(t), NEW row,
         row = RecoveredRow(tasks[t]) \/ \E deadLetter : row = FailedRow(tasks[t], deadLetter)
  PROVE  DbOK(Cascade([tasks EXCEPT ![t] = row], t))
<1>1. /\ t \in DOMAIN tasks /\ tasks \in [DOMAIN tasks -> TaskRow] /\ tasks[t] \in TaskRow
      /\ tasks[t].status = "running" /\ DbOK(tasks)
  BY DEF RunningTask, IInv, TypeOK, StoreTypeOK
<1>2. PICK deadLetter : row = RecoveredRow(tasks[t]) \/ row = FailedRow(tasks[t], deadLetter)
  OBVIOUS
<1>3. /\ RecoveredRow(tasks[t]) \in TaskRow
      /\ FailedRow(tasks[t], deadLetter) \in TaskRow
  BY <1>1, RowTypes
<1>4. /\ SameTask(row, tasks[t])
      /\ \/ row.status = "dead_letter"
         \/ row.status \in {"pending", "failed"} /\ row.retryCount <= row.maxRetries
  <2>1. CASE row = RecoveredRow(tasks[t])
    BY <1>1, <2>1, RowFields
  <2>2. CASE row = FailedRow(tasks[t], deadLetter)
    BY <1>1, <2>2, RowFields
  <2> QED BY <1>2, <2>1, <2>2
<1> QED BY <1>1, <1>2, <1>3, <1>4, CountedStep

LEMMA LiveRowDb ==
  ASSUME IInv, NEW t, RunningTask(t), NEW row,
         row = Ended(tasks[t], "done") \/ row = [Pending(tasks[t]) EXCEPT !.wait = FALSE]
  PROVE  DbOK([tasks EXCEPT ![t] = row])
<1>1. /\ t \in DOMAIN tasks /\ tasks \in [DOMAIN tasks -> TaskRow] /\ tasks[t] \in TaskRow
      /\ tasks[t].status = "running" /\ DbOK(tasks)
  BY DEF RunningTask, IInv, TypeOK, StoreTypeOK
<1>2. row \in TaskRow
  BY <1>1, RowTypes DEF TaskStatus
<1>3. CASE row = Ended(tasks[t], "done")
  <2>1. SameTask(row, tasks[t]) /\ row.status = "done"
    BY <1>1, <1>3, RowFields
  <2> QED BY <1>1, <1>2, <2>1, LiveRow
<1>4. CASE row = [Pending(tasks[t]) EXCEPT !.wait = FALSE]
  <2>1. /\ SameTask(row, tasks[t]) /\ row.status = "pending"
        /\ row.retryCount = tasks[t].retryCount /\ row.maxRetries = tasks[t].maxRetries
    BY <1>1, <1>4 DEF Pending, SameTask, TaskRow
  <2>2. row.retryCount <= row.maxRetries
    BY <1>1, <2>1 DEF DbOK
  <2> QED BY <1>1, <1>2, <2>1, <2>2, LiveRow
<1> QED BY <1>3, <1>4

LEMMA SettleDb ==
  ASSUME IInv, NEW r, Settle(r) \/ InterruptRun(r) \/ CloseRun(r)
  PROVE  DbOK(tasks')
<1> DEFINE t == runs[r].task
<1>0. DbOK(tasks)
  BY DEF IInv
<1>1. CASE CompleteRun(r)
  <2>1. tasks' = [tasks EXCEPT ![t] = Ended(tasks[t], "done")] /\ RunningTask(t)
    BY <1>1 DEF CompleteRun
  <2> QED BY <2>1, LiveRowDb
<1>2. ASSUME NEW deadLetter \in BOOLEAN, FailRun(r, deadLetter)
      PROVE  DbOK(tasks')
  <2>1. tasks' = Cascade([tasks EXCEPT ![t] = FailedRow(tasks[t], deadLetter)], t) /\ RunningTask(t)
    BY <1>2 DEF FailRun
  <2> QED BY <2>1, CountedFailureDb
<1>3. CASE RecoverRun(r)
  <2>1. \/ tasks' = Cascade([tasks EXCEPT ![t] = RecoveredRow(tasks[t])], t) /\ RunningTask(t)
        \/ tasks' = tasks
    BY <1>3 DEF RecoverRun
  <2> QED BY <1>0, <2>1, CountedFailureDb
<1>4. CASE InterruptRun(r)
  <2>1. \/ tasks' = [tasks EXCEPT ![t] = [Pending(tasks[t]) EXCEPT !.wait = FALSE]] /\ RunningTask(t)
        \/ tasks' = tasks
    BY <1>4 DEF InterruptRun
  <2> QED BY <1>0, <2>1, LiveRowDb
<1>5. CASE CloseRun(r)
  BY <1>0, <1>5 DEF CloseRun
<1> QED BY <1>1, <1>2, <1>3, <1>4, <1>5 DEF Settle

LEMMA ClaimDb ==
  ASSUME IInv, NEW t, NEW excluded, ClaimNext(t, excluded)
  PROVE  DbOK(tasks')
<1> DEFINE row == [tasks[t] EXCEPT !.status = "running", !.finished = FALSE]
<1>1. /\ t \in DOMAIN tasks /\ tasks \in [DOMAIN tasks -> TaskRow] /\ tasks[t] \in TaskRow
      /\ tasks[t].status \in {"pending", "failed"}
      /\ DbOK(tasks)
  BY DEF ClaimNext, Runnable, Waiting, IInv, TypeOK, StoreTypeOK
<1>2. tasks[t].dependsOn # 0 =>
        /\ tasks[t].dependsOn \in DOMAIN tasks
        /\ tasks[tasks[t].dependsOn].cwd = tasks[t].cwd
        /\ tasks[tasks[t].dependsOn].status = "done"
  BY DEF ClaimNext, Runnable, DependencyDone
<1>3. row \in TaskRow
  BY <1>1, RowTypes
<1>4. /\ row.status = "running" /\ SameTask(row, tasks[t])
      /\ row.retryCount = tasks[t].retryCount /\ row.maxRetries = tasks[t].maxRetries
  BY <1>1 DEF SameTask, TaskRow
<1>5. row.retryCount <= row.maxRetries
  BY <1>1, <1>4 DEF DbOK
<1>6. tasks' = [tasks EXCEPT ![t] = row]
  BY DEF ClaimNext
<1> HIDE DEF row
<1>7. row.dependsOn = tasks[t].dependsOn /\ row.cwd = tasks[t].cwd
  BY <1>4 DEF SameTask
<1> QED BY <1>1, <1>2, <1>3, <1>4, <1>5, <1>6, <1>7, LiveRow

LEMMA BackoffDb ==
  ASSUME IInv, NEW t, BackoffElapses(t)
  PROVE  DbOK(tasks')
<1> DEFINE D == DOMAIN tasks
           new == tasks'
<1>1. /\ t \in D /\ tasks \in [D -> TaskRow] /\ tasks[t] \in TaskRow /\ StoreTypeOK /\ DbOK(tasks)
  BY DEF BackoffElapses, IInv, TypeOK, StoreTypeOK
<1>2. new = [tasks EXCEPT ![t] = [tasks[t] EXCEPT !.wait = FALSE]]
  BY DEF BackoffElapses
<1>3. [tasks[t] EXCEPT !.wait = FALSE] \in TaskRow
  BY <1>1, RowTypes
<1>4. new \in [D -> TaskRow]
  BY <1>1, <1>2, <1>3
<1>5. \A u \in D : /\ new[u].status = tasks[u].status
                   /\ new[u].dependsOn = tasks[u].dependsOn /\ new[u].cwd = tasks[u].cwd
                   /\ new[u].retryCount = tasks[u].retryCount /\ new[u].maxRetries = tasks[u].maxRetries
  BY <1>1, <1>2 DEF TaskRow
<1> HIDE DEF new
<1>6. \A u \in D : new[u].status \in {"pending", "running", "failed"} => new[u].retryCount <= new[u].maxRetries
  BY <1>1, <1>5 DEF DbOK
<1>7. DbOK(new)
  BY <1>1, <1>4, <1>5, <1>6, LiveStep
<1> QED BY <1>7 DEF new

LEMMA ClientDb ==
  ASSUME IInv, Client
  PROVE  DbOK(tasks')
<1>1. CASE ClientAdd
  BY <1>1, AddDb DEF ClientAdd
<1>2. CASE ClientUpdate
  BY <1>2, UpdateDb DEF ClientUpdate
<1>3. ASSUME NEW t \in TaskId, Cancel(t)
      PROVE  DbOK(tasks')
  <2> DEFINE row == Ended(tasks[t], "cancelled")
  <2>1. /\ t \in DOMAIN tasks /\ tasks \in [DOMAIN tasks -> TaskRow] /\ tasks[t] \in TaskRow
        /\ tasks[t].status # "done" /\ DbOK(tasks)
    BY <1>3 DEF Cancel, IInv, TypeOK, StoreTypeOK
  <2>2. row \in TaskRow /\ row.status = "cancelled" /\ SameTask(row, tasks[t])
    BY <2>1, RowTypes, RowFields DEF TaskStatus
  <2>3. tasks' = Cascade([tasks EXCEPT ![t] = row], t)
    BY <1>3 DEF Cancel
  <2> HIDE DEF row
  <2> QED BY <2>1, <2>2, <2>3, EndStep DEF SameTask
<1>4. CASE ClientRetry
  BY <1>4, RetryDb DEF ClientRetry
<1>5. CASE ClientRetryBatch
  BY <1>5, RetryBatchDb DEF ClientRetryBatch
<1>6. ASSUME NEW t \in TaskId, Delete(t)
      PROVE  DbOK(tasks')
  BY <1>6, RemoveDb DEF Delete, Dependents
<1>7. CASE ClientAbandon
  BY <1>7, SettleDb DEF ClientAbandon
<1> QED BY <1>1, <1>2, <1>3, <1>4, <1>5, <1>6, <1>7 DEF Client, ClientCancel, ClientDelete

LEMMA DbNext ==
  ASSUME IInv, [Next]_vars
  PROVE  DbOK(tasks')
<1> USE DEF storeVars
<1>0. DbOK(tasks)
  BY DEF IInv
<1>1. CASE Client
  BY <1>1, ClientDb
<1>2. CASE GatewayStart \/ Poll \/ HandBack
  BY <1>2, ResetDb DEF GatewayStart, Poll, HandBack, ResetOrphans
<1>3. CASE GatewayReady
  BY <1>0, <1>3, ResolveDb DEF GatewayReady, IInv, TypeOK, DbOK
<1>4. CASE Dispatch
  BY <1>4, ClaimDb DEF Dispatch
<1>5. CASE StartFails
  <2>1. CASE Fail(claim)
    <3>1. tasks' = Cascade([tasks EXCEPT ![claim] = FailedRow(tasks[claim], FALSE)], claim) /\ RunningTask(claim)
      BY <2>1 DEF Fail
    <3> QED BY <3>1, CountedFailureDb
  <2> QED BY <1>0, <1>5, <2>1 DEF StartFails
<1>6. CASE Execution \/ Shutdown
  BY <1>6, SettleDb DEF Execution, Shutdown
<1>7. ASSUME NEW page, Cleanup(page)
      PROVE  DbOK(tasks')
  <2>1. \A t \in DOMAIN tasks \ Purgeable(page) : tasks[t].dependsOn \notin Purgeable(page)
    BY PurgeableClosed
  <2> QED BY <1>7, <2>1, RemoveDb DEF Cleanup
<1>8. CASE Backoff
  BY <1>8, BackoffDb DEF Backoff
<1>9. CASE GatewayStop \/ GatewayExit \/ Look \/ NoDispatch \/ StartRun \/ UNCHANGED vars
  BY <1>0, <1>9 DEF GatewayStop, GatewayExit, Look, NoDispatch, StartRun, CreateRun, vars
<1> QED BY <1>1, <1>2, <1>3, <1>4, <1>5, <1>6, <1>7, <1>8, <1>9 DEF Next, Retention

-----------------------------------------------------------------------------
(* Slots, batches, runs and the claim.  Every step but Dispatch is quiet:  *)
(* it puts no task into execution.                                         *)

InFlight == {t \in DOMAIN tasks : Occupied(t)}

\* No task starts, no run opens, and a task in execution keeps its batch.
Quiet ==
  /\ DOMAIN tasks' \subseteq DOMAIN tasks \cup {nextTask}
  /\ \A u \in DOMAIN tasks' : tasks' [u].status = "running" =>
        u \in DOMAIN tasks /\ tasks[u].status = "running"
  /\ \A u \in DOMAIN tasks : u \in DOMAIN tasks' /\ tasks[u].status \in {"running", "cancelled"} =>
        tasks' [u].batch = tasks[u].batch
  /\ \A r \in DOMAIN runs' : /\ r \in DOMAIN runs
                             /\ runs' [r].task = runs[r].task
                             /\ runs' [r].status = "running" => runs[r].status = "running"
  /\ claim' \in {0, claim}

\* Ids below the bound are finitely many.
LEMMA InFlightFinite ==
  ASSUME TypeOK
  PROVE  IsFiniteSet(InFlight) /\ Cardinality(InFlight) \in Nat
<1>1. IsFiniteSet(TaskId)
  BY FS_Interval, StoreConstants DEF TaskId
<1>2. InFlight \subseteq TaskId
  BY DEF InFlight, TypeOK, StoreTypeOK
<1> QED BY <1>1, <1>2, FS_Subset, FS_CardinalityType

LEMMA QuietStep ==
  ASSUME IInv, TypeOK', Quiet
  PROVE  /\ InFlight' \subseteq InFlight
         /\ BatchSerial'
         /\ ConcurrencyCap'
         /\ (phase' = "slot" => phase = "slot") => SlotOK'
<1>1. ASSUME NEW u \in DOMAIN tasks', Occupied(u)'
      PROVE  /\ u \in DOMAIN tasks
             /\ Occupied(u)
             /\ tasks[u].status \in {"running", "cancelled"}
  <2>1. CASE tasks' [u].status = "running"
    BY <2>1 DEF Quiet, Occupied, Active
  <2>2. CASE OpenRuns(u)' # {}
    <3>0. PICK r \in DOMAIN runs' : runs' [r].task = u /\ runs' [r].status = "running"
      BY <2>2 DEF OpenRuns
    <3>1. r \in DOMAIN runs /\ runs[r].task = u /\ runs[r].status = "running"
      BY <3>0 DEF Quiet
    <3>2. u \in DOMAIN tasks /\ tasks[u].status \in {"running", "cancelled"}
      BY <3>1 DEF IInv, RunsOK, OpenRun
    <3> QED BY <3>1, <3>2 DEF Occupied, Active, OpenRuns
  <2>3. CASE u = claim'
    <3>1. u # 0
      BY DEF TypeOK, StoreTypeOK, TaskId
    <3>2. u = claim /\ u < nextTask /\ u \in Nat /\ nextTask \in Nat
      BY <2>3, <3>1, StoreConstants DEF Quiet, IInv, ClaimOK, TypeOK, StoreTypeOK, TaskId
    <3>3. u \in DOMAIN tasks
      BY <3>2 DEF Quiet
    <3> QED BY <3>1, <3>2, <3>3 DEF IInv, ClaimOK, Occupied
  <2> QED BY <1>1, <2>1, <2>2, <2>3 DEF Occupied, Active
<1>2. \A u \in DOMAIN tasks' : Occupied(u)' => tasks' [u].batch = tasks[u].batch
  BY <1>1 DEF Quiet
<1>3. InFlight' \subseteq InFlight
  BY <1>1 DEF InFlight
<1>4. BatchSerial'
  BY <1>1, <1>2 DEF BatchSerial, IInv
<1>5. Cardinality(InFlight') <= Cardinality(InFlight) /\ Cardinality(InFlight') \in Nat /\ Cardinality(InFlight) \in Nat
  <2>1. TypeOK
    BY DEF IInv
  <2> QED BY <2>1, <1>3, InFlightFinite, FS_Subset, FS_CardinalityType
<1>6. ConcurrencyCap'
  <2>1. Cardinality(InFlight) <= MaxConcurrency
    BY DEF IInv, ConcurrencyCap, InFlight
  <2>2. Cardinality(InFlight') <= MaxConcurrency
    BY <1>5, <2>1, ConcurrencyAssumption
  <2> QED BY <2>2 DEF ConcurrencyCap, InFlight
<1>7. ASSUME phase' = "slot" => phase = "slot"
      PROVE  SlotOK'
  <2> SUFFICES ASSUME phase' = "slot"
               PROVE  Cardinality(InFlight') < MaxConcurrency
    BY DEF SlotOK, InFlight
  <2>1. Cardinality(InFlight) < MaxConcurrency
    BY <1>7 DEF IInv, SlotOK, InFlight
  <2> QED BY <1>5, <2>1, ConcurrencyAssumption
<1> QED BY <1>3, <1>4, <1>6, <1>7

\* A quiet step that keeps the rows of open runs and of the claim.
LEMMA QuietInv ==
  ASSUME IInv, TypeOK', DbOK(tasks'), Quiet,
         \A t \in DOMAIN tasks' : t < nextTask',
         nextTask' \in {nextTask, nextTask + 1}, nextRun' = nextRun,
         \A r \in DOMAIN runs' : runs' [r].status = "running" =>
            runs[r].task \in DOMAIN tasks' /\ tasks' [runs[r].task].status \in {"running", "cancelled"},
         claim' # 0 /\ claim \in DOMAIN tasks /\ claim \in DOMAIN tasks' =>
            tasks' [claim].status \in {"running", "cancelled"},
         phase' = "claimed" <=> claim' # 0,
         gateway' \in {"down", "starting"} => claim' = 0,
         phase' = "slot" => phase = "slot"
  PROVE  IInv'
<1>1. BatchSerial' /\ ConcurrencyCap' /\ SlotOK'
  BY QuietStep
<1>2. \A r \in DOMAIN runs' : runs' [r].status = "running" =>
        r \in DOMAIN runs /\ runs[r].status = "running" /\ runs' [r].task = runs[r].task
  BY DEF Quiet
<1>4. RunsOK'
  <2>1. \A r \in DOMAIN runs' : r < nextRun'
    BY DEF IInv, RunsOK, Quiet
  <2>2. \A q, r \in DOMAIN runs' :
          runs' [q].status = "running" /\ runs' [r].status = "running" /\ runs' [q].task = runs' [r].task => q = r
    BY <1>2 DEF IInv, RunsOK, OpenRun
  <2>3. \A r \in DOMAIN runs' : runs' [r].status = "running" =>
          runs' [r].task \in DOMAIN tasks' /\ tasks' [runs' [r].task].status \in {"running", "cancelled"}
    BY <1>2
  <2> QED BY <2>1, <2>2, <2>3 DEF RunsOK, OpenRun
<1>3. ClaimOK'
  <2>1. ASSUME claim' # 0
        PROVE  /\ claim' < nextTask'
               /\ \A r \in DOMAIN runs' : runs' [r].status = "running" => runs' [r].task # claim'
               /\ claim' \in DOMAIN tasks' => tasks' [claim'].status \in {"running", "cancelled"}
    <3>1. claim' = claim /\ claim < nextTask /\ claim \in Nat /\ nextTask \in Nat
      BY <2>1, StoreConstants DEF Quiet, IInv, ClaimOK, TypeOK, StoreTypeOK, TaskId
    <3>2. claim' < nextTask'
      BY <3>1
    <3>3. \A r \in DOMAIN runs' : runs' [r].status = "running" => runs' [r].task # claim'
      BY <1>2, <2>1, <3>1 DEF IInv, ClaimOK, OpenRun
    <3>4. claim' \in DOMAIN tasks' => claim \in DOMAIN tasks
      BY <3>1 DEF Quiet
    <3> QED BY <2>1, <3>1, <3>2, <3>3, <3>4
  <2> QED BY <2>1 DEF ClaimOK, OpenRun
<1> QED BY <1>1, <1>3, <1>4 DEF IInv

\* The rows a transaction rewrites: what is in execution stays in execution
\* or becomes cancelled, but for the tasks of T.
Frame(T) ==
  /\ DOMAIN tasks' = DOMAIN tasks
  /\ \A u \in DOMAIN tasks :
        /\ tasks' [u].status = "running" => tasks[u].status = "running"
        /\ tasks[u].status \in {"running", "cancelled"} =>
              /\ tasks' [u].batch = tasks[u].batch
              /\ u \notin T => tasks' [u].status \in {"running", "cancelled"}

LEMMA FrameInv ==
  ASSUME IInv, TypeOK', DbOK(tasks'), NEW T, Frame(T),
         \/ runs' = runs
         \/ \E r \in DOMAIN runs : runs' = [runs EXCEPT ![r].status = "failed"]
         \/ \E r \in DOMAIN runs : runs' = [runs EXCEPT ![r].status = "done"],
         \A r \in DOMAIN runs : runs[r].task \in T => runs' [r].status # "running",
         UNCHANGED <<nextTask, nextRun>>,
         claim' \in {0, claim}, claim' # 0 => claim \notin T,
         phase' = "claimed" <=> claim' # 0,
         gateway' \in {"down", "starting"} => claim' = 0,
         phase' = "slot" => phase = "slot"
  PROVE  IInv'
<1>1. runs \in [DOMAIN runs -> RunRow]
  BY DEF IInv, TypeOK, StoreTypeOK
<1>2. /\ DOMAIN runs' = DOMAIN runs
      /\ \A r \in DOMAIN runs : /\ runs' [r].task = runs[r].task
                                /\ runs' [r].status = "running" => runs[r].status = "running"
  BY <1>1 DEF RunRow
<1>3. Quiet
  BY <1>2 DEF Frame, Quiet
<1>4. \A t \in DOMAIN tasks' : t < nextTask'
  BY DEF Frame, IInv, RunsOK
<1>5. \A r \in DOMAIN runs' : runs' [r].status = "running" =>
            runs[r].task \in DOMAIN tasks' /\ tasks' [runs[r].task].status \in {"running", "cancelled"}
  <2> SUFFICES ASSUME NEW r \in DOMAIN runs, runs' [r].status = "running"
               PROVE  runs[r].task \in DOMAIN tasks' /\ tasks' [runs[r].task].status \in {"running", "cancelled"}
    BY <1>2
  <2>1. runs[r].task \in DOMAIN tasks /\ tasks[runs[r].task].status \in {"running", "cancelled"}
    BY <1>2 DEF IInv, RunsOK, OpenRun
  <2>2. runs[r].task \notin T
    BY <1>2
  <2> QED BY <2>1, <2>2 DEF Frame
<1>6. claim' # 0 /\ claim \in DOMAIN tasks /\ claim \in DOMAIN tasks' =>
            tasks' [claim].status \in {"running", "cancelled"}
  BY DEF Frame, IInv, ClaimOK
<1> QED BY <1>3, <1>4, <1>5, <1>6, QuietInv

\* One row rewritten, with the cascade or without.
LEMMA CascadeFrame ==
  ASSUME IInv, NEW t \in DOMAIN tasks, NEW row \in TaskRow, SameTask(row, tasks[t]), row.status # "running",
         \/ tasks' = Cascade([tasks EXCEPT ![t] = row], t)
         \/ tasks' = [tasks EXCEPT ![t] = row]
  PROVE  Frame({t})
<1> DEFINE mid == [tasks EXCEPT ![t] = row]
<1>1. /\ DOMAIN mid = DOMAIN tasks
      /\ mid[t] = row
      /\ \A u \in DOMAIN tasks \ {t} : mid[u] = tasks[u]
  BY DEF IInv, TypeOK, StoreTypeOK
<1>2. tasks' = mid \/ \E S \in SUBSET Waiting(mid) : tasks' = Bury(mid, S)
  BY DEF Cascade, Downstream
<1>3. \A u \in DOMAIN tasks : mid[u] \in TaskRow
  BY <1>1 DEF IInv, TypeOK, StoreTypeOK
<1> HIDE DEF mid
<1>4. CASE tasks' = mid
  BY <1>1, <1>4 DEF Frame, SameTask
<1>5. ASSUME NEW S \in SUBSET Waiting(mid), tasks' = Bury(mid, S)
      PROVE  Frame({t})
  <2>1. DOMAIN tasks' = DOMAIN tasks
    BY <1>1, <1>5 DEF Bury
  <2>2. \A u \in DOMAIN tasks : tasks'[u] = IF u \in S THEN Ended(mid[u], "dead_letter") ELSE mid[u]
    BY <1>1, <1>5 DEF Bury
  <2>3. \A u \in DOMAIN tasks : /\ Ended(mid[u], "dead_letter").status = "dead_letter"
                               /\ SameTask(Ended(mid[u], "dead_letter"), mid[u])
    BY <1>3, RowFields
  <2>4. \A u \in S : mid[u].status \in {"pending", "failed"}
    BY DEF Waiting
  <2> QED BY <1>1, <2>1, <2>2, <2>3, <2>4 DEF Frame, SameTask
<1> QED BY <1>2, <1>4, <1>5

LEMMA BuryFrame ==
  ASSUME IInv, NEW S \in SUBSET Waiting(tasks), tasks' = Bury(tasks, S)
  PROVE  Frame({})
<1>1. DOMAIN tasks' = DOMAIN tasks
  BY DEF Bury
<1>2. \A u \in DOMAIN tasks : tasks'[u] = IF u \in S THEN Ended(tasks[u], "dead_letter") ELSE tasks[u]
  BY DEF Bury
<1>3. \A u \in DOMAIN tasks : Ended(tasks[u], "dead_letter").status = "dead_letter"
  BY RowFields DEF IInv, TypeOK, StoreTypeOK
<1>4. \A u \in S : tasks[u].status \in {"pending", "failed"}
  BY DEF Waiting
<1> QED BY <1>1, <1>2, <1>3, <1>4 DEF Frame

LEMMA ResetFrame ==
  ASSUME IInv, NEW S, ResetToPending(S)
  PROVE  Frame(S)
<1>1. DOMAIN tasks' = DOMAIN tasks
  BY DEF ResetToPending
<1>2. \A u \in DOMAIN tasks : tasks'[u] = IF u \in S /\ RunningTask(u) THEN Pending(tasks[u]) ELSE tasks[u]
  BY DEF ResetToPending
<1>3. \A u \in DOMAIN tasks : Pending(tasks[u]).status = "pending" /\ SameTask(Pending(tasks[u]), tasks[u])
  BY RowFields DEF IInv, TypeOK, StoreTypeOK
<1> QED BY <1>1, <1>2, <1>3 DEF Frame, SameTask

\* Clients neither start nor settle anything.
LEMMA ClientFrame ==
  ASSUME IInv, \/ ClientUpdate \/ ClientCancel \/ ClientRetry \/ ClientRetryBatch
  PROVE  Frame({}) /\ UNCHANGED <<runs, nextTask, nextRun>>
<1>0. \A t \in DOMAIN tasks : tasks[t] \in TaskRow
  BY DEF IInv, TypeOK, StoreTypeOK
<1>1. ASSUME NEW t \in TaskId, NEW b \in Batches \cup {NoBatch}, NEW p \in Prios, NEW m \in RetryLimits,
             Update(t, b, p, m)
      PROVE  Frame({}) /\ UNCHANGED <<runs, nextTask, nextRun>>
  <2> DEFINE ex == Exhausted(t, m)
             row == EditedRow(tasks[t], b, p, m, ex)
             mid == [tasks EXCEPT ![t] = row]
  <2>1. t \in DOMAIN tasks /\ tasks[t].status \in {"pending", "failed", "dead_letter"}
    BY <1>1 DEF Update
  <2>2. ex \in BOOLEAN
    BY DEF Exhausted
  <2>3. tasks' = mid \/ tasks' = Cascade(mid, t)
    BY <1>1 DEF Update
  <2> HIDE DEF ex
  <2>4. row \in TaskRow /\ row.status \in {"pending", "failed", "dead_letter"}
    BY <1>0, <2>1, <2>2, EditedRowType, OtherRowFields
  <2> HIDE DEF row
  <2>5. /\ DOMAIN mid = DOMAIN tasks
        /\ mid[t] = row
        /\ \A u \in DOMAIN tasks \ {t} : mid[u] = tasks[u]
    BY <2>1 DEF IInv, TypeOK, StoreTypeOK
  <2>6. tasks' = mid \/ \E S \in SUBSET Waiting(mid) : tasks' = Bury(mid, S)
    BY <2>3 DEF Cascade, Downstream
  <2>7. \A u \in DOMAIN tasks : mid[u] \in TaskRow
    BY <1>0, <2>4, <2>5
  <2> HIDE DEF mid
  <2>8. ASSUME tasks' = mid
        PROVE  Frame({})
    BY <2>1, <2>4, <2>5, <2>8 DEF Frame
  <2>9. ASSUME NEW S \in SUBSET Waiting(mid), tasks' = Bury(mid, S)
        PROVE  Frame({})
    <3>1. DOMAIN tasks' = DOMAIN tasks
      BY <2>5, <2>9 DEF Bury
    <3>2. \A u \in DOMAIN tasks : tasks'[u] = IF u \in S THEN Ended(mid[u], "dead_letter") ELSE mid[u]
      BY <2>5, <2>9 DEF Bury
    <3>3. \A u \in DOMAIN tasks : Ended(mid[u], "dead_letter").status = "dead_letter"
      BY <2>7, RowFields
    <3>4. \A u \in S : mid[u].status \in {"pending", "failed"}
      BY DEF Waiting
    <3> QED BY <2>1, <2>4, <2>5, <3>1, <3>2, <3>3, <3>4 DEF Frame
  <2>10. Frame({})
    BY <2>6, <2>8, <2>9
  <2>11. UNCHANGED <<runs, nextTask, nextRun>>
    BY <1>1 DEF Update
  <2> QED BY <2>10, <2>11
<1>2. ASSUME NEW t \in TaskId, Cancel(t)
      PROVE  Frame({}) /\ UNCHANGED <<runs, nextTask, nextRun>>
  <2> DEFINE row == Ended(tasks[t], "cancelled")
  <2>0. t \in DOMAIN tasks /\ tasks[t] \in TaskRow
    BY <1>0, <1>2 DEF Cancel
  <2>1. /\ t \in DOMAIN tasks /\ row \in TaskRow
        /\ row.status = "cancelled" /\ SameTask(row, tasks[t])
    BY <2>0, RowTypes, RowFields DEF TaskStatus
  <2>2. tasks' = Cascade([tasks EXCEPT ![t] = row], t)
    BY <1>2 DEF Cancel
  <2> HIDE DEF row
  <2>3. Frame({t})
    BY <2>1, <2>2, CascadeFrame
  <2>4. tasks'[t].status = "cancelled"
    <3>1. t \notin Waiting([tasks EXCEPT ![t] = row])
      BY <2>1 DEF Waiting
    <3>2. tasks' = Bury([tasks EXCEPT ![t] = row], Downstream([tasks EXCEPT ![t] = row], {t}))
      BY <2>1, <2>2 DEF Cascade, IInv, TypeOK, StoreTypeOK
    <3>3. t \notin Downstream([tasks EXCEPT ![t] = row], {t})
      BY <3>1 DEF Downstream
    <3> QED BY <2>1, <3>2, <3>3 DEF Bury, IInv, TypeOK, StoreTypeOK
  <2>5. Frame({})
    BY <2>3, <2>4 DEF Frame
  <2>6. UNCHANGED <<runs, nextTask, nextRun>>
    BY <1>2 DEF Cancel
  <2> QED BY <2>5, <2>6
<1>3. ASSUME NEW t \in TaskId, Retry(t)
      PROVE  Frame({}) /\ UNCHANGED <<runs, nextTask, nextRun>>
  <2>1. t \in DOMAIN tasks /\ tasks[t].status \in {"failed", "dead_letter"}
    BY <1>3 DEF Retry
  <2>2. Requeued(tasks[t]).status = "pending"
    BY <1>0, <2>1, RowFields
  <2>3. /\ DOMAIN tasks' = DOMAIN tasks
        /\ tasks'[t] = Requeued(tasks[t])
        /\ \A u \in DOMAIN tasks \ {t} : tasks'[u] = tasks[u]
    BY <1>3, <2>1 DEF Retry, IInv, TypeOK, StoreTypeOK
  <2> QED BY <1>3, <2>1, <2>2, <2>3 DEF Frame, Retry
<1>4. ASSUME NEW b, RetryBatch(b)
      PROVE  Frame({}) /\ UNCHANGED <<runs, nextTask, nextRun>>
  <2>1. \A t \in Retryable(b) : t \in DOMAIN tasks /\ tasks[t].status \in {"failed", "dead_letter"}
    BY DEF Retryable
  <2>2. \A t \in DOMAIN tasks : Requeued(tasks[t]).status = "pending"
    BY <1>0, RowFields
  <2>3. /\ DOMAIN tasks' = DOMAIN tasks
        /\ \A t \in DOMAIN tasks : tasks'[t] = IF t \in Retryable(b) THEN Requeued(tasks[t]) ELSE tasks[t]
    BY <1>4 DEF RetryBatch
  <2> QED BY <1>4, <2>1, <2>2, <2>3 DEF Frame, RetryBatch
<1> QED BY <1>1, <1>2, <1>3, <1>4 DEF ClientUpdate, ClientCancel, ClientRetry, ClientRetryBatch

\* Deleting tasks without open runs.
LEMMA RemoveInv ==
  ASSUME IInv, NEW S, Remove(S), \A t \in S : OpenRuns(t) = {},
         UNCHANGED <<gateway, phase, claim>>, TypeOK', DbOK(tasks')
  PROVE  IInv'
<1>1. /\ DOMAIN tasks' = DOMAIN tasks \ S
      /\ \A t \in DOMAIN tasks \ S : tasks'[t] = tasks[t]
      /\ DOMAIN runs' = {q \in DOMAIN runs : runs[q].task \notin S}
      /\ \A r \in DOMAIN runs' : runs'[r] = runs[r]
      /\ UNCHANGED <<nextTask, nextRun>>
  BY DEF Remove
<1>2. Quiet
  BY <1>1 DEF Quiet
<1>3. \A t \in DOMAIN tasks' : t < nextTask'
  BY <1>1 DEF IInv, RunsOK
<1>4. \A r \in DOMAIN runs' : runs'[r].status = "running" =>
         runs[r].task \in DOMAIN tasks' /\ tasks'[runs[r].task].status \in {"running", "cancelled"}
  BY <1>1 DEF IInv, RunsOK, OpenRun
<1>5. /\ claim' # 0 /\ claim \in DOMAIN tasks /\ claim \in DOMAIN tasks' =>
            tasks'[claim].status \in {"running", "cancelled"}
      /\ phase' = "claimed" <=> claim' # 0
      /\ gateway' \in {"down", "starting"} => claim' = 0
      /\ phase' = "slot" => phase = "slot"
  BY <1>1 DEF IInv, ClaimOK
<1> QED BY <1>1, <1>2, <1>3, <1>4, <1>5, QuietInv

\* Whatever settles an execution takes the task of one open run, and no
\* other, out of the queue's hands.
LEMMA SettleFrame ==
  ASSUME IInv, NEW r, Settle(r) \/ InterruptRun(r) \/ CloseRun(r)
  PROVE  /\ Frame({runs[r].task})
         /\ r \in DOMAIN runs /\ runs[r].status = "running"
         /\ \/ runs' = [runs EXCEPT ![r].status = "failed"]
            \/ runs' = [runs EXCEPT ![r].status = "done"]
         /\ UNCHANGED <<nextTask, nextRun>>
<1> DEFINE t == runs[r].task
<1>1. /\ r \in DOMAIN runs /\ runs[r].status = "running"
      /\ \/ runs' = [runs EXCEPT ![r].status = "failed"]
         \/ runs' = [runs EXCEPT ![r].status = "done"]
      /\ UNCHANGED <<nextTask, nextRun>>
  BY DEF Settle, CompleteRun, FailRun, RecoverRun, CloseRun, InterruptRun, OpenRun, Close
<1>2. t \in DOMAIN tasks /\ tasks[t] \in TaskRow
  BY <1>1 DEF IInv, RunsOK, OpenRun, TypeOK, StoreTypeOK
<1>3. PICK deadLetter \in BOOLEAN :
        \/ tasks' = tasks
        \/ tasks' = [tasks EXCEPT ![t] = Ended(tasks[t], "done")]
        \/ tasks' = [tasks EXCEPT ![t] = [Pending(tasks[t]) EXCEPT !.wait = FALSE]]
        \/ tasks' = Cascade([tasks EXCEPT ![t] = FailedRow(tasks[t], deadLetter)], t)
        \/ tasks' = Cascade([tasks EXCEPT ![t] = RecoveredRow(tasks[t])], t)
  BY DEF Settle, CompleteRun, FailRun, RecoverRun, CloseRun, InterruptRun
<1>4. ASSUME tasks' = tasks
      PROVE  Frame({t})
  BY <1>4 DEF Frame
<1>5. ASSUME tasks' = [tasks EXCEPT ![t] = Ended(tasks[t], "done")]
      PROVE  Frame({t})
  <2>1. /\ Ended(tasks[t], "done") \in TaskRow /\ SameTask(Ended(tasks[t], "done"), tasks[t])
        /\ Ended(tasks[t], "done").status = "done"
    BY <1>2, RowTypes, RowFields DEF TaskStatus
  <2> QED BY <1>2, <1>5, <2>1, CascadeFrame
<1>6. ASSUME tasks' = [tasks EXCEPT ![t] = [Pending(tasks[t]) EXCEPT !.wait = FALSE]]
      PROVE  Frame({t})
  <2> DEFINE row == [Pending(tasks[t]) EXCEPT !.wait = FALSE]
  <2>1. /\ row \in TaskRow /\ SameTask(row, tasks[t])
        /\ row.status = "pending"
    BY <1>2 DEF Pending, SameTask, TaskRow, TaskStatus
  <2> QED BY <1>2, <1>6, <2>1, CascadeFrame
<1>7. ASSUME tasks' = Cascade([tasks EXCEPT ![t] = FailedRow(tasks[t], deadLetter)], t)
      PROVE  Frame({t})
  <2> DEFINE row == FailedRow(tasks[t], deadLetter)
  <2>1. row \in TaskRow /\ SameTask(row, tasks[t]) /\ row.status \in {"dead_letter", "failed"}
    BY <1>2, RowTypes, RowFields
  <2> HIDE DEF row
  <2>2. tasks' = Cascade([tasks EXCEPT ![t] = row], t)
    BY <1>7 DEF row
  <2> QED BY <1>2, <2>1, <2>2, CascadeFrame
<1>8. ASSUME tasks' = Cascade([tasks EXCEPT ![t] = RecoveredRow(tasks[t])], t)
      PROVE  Frame({t})
  <2> DEFINE row == RecoveredRow(tasks[t])
  <2>1. row \in TaskRow /\ SameTask(row, tasks[t]) /\ row.status \in {"dead_letter", "pending"}
    BY <1>2, RowTypes, RowFields
  <2> HIDE DEF row
  <2>2. tasks' = Cascade([tasks EXCEPT ![t] = row], t)
    BY <1>8 DEF row
  <2> QED BY <1>2, <2>1, <2>2, CascadeFrame
<1> HIDE DEF t
<1>9. Frame({t})
  BY <1>3, <1>4, <1>5, <1>6, <1>7, <1>8
<1> QED BY <1>1, <1>9 DEF t

LEMMA SettleInv ==
  ASSUME IInv, NEW r, Settle(r) \/ InterruptRun(r) \/ CloseRun(r),
         UNCHANGED queueVars, TypeOK', DbOK(tasks')
  PROVE  IInv'
<1>1. /\ Frame({runs[r].task})
      /\ r \in DOMAIN runs /\ runs[r].status = "running"
      /\ \/ runs' = [runs EXCEPT ![r].status = "failed"]
         \/ runs' = [runs EXCEPT ![r].status = "done"]
      /\ UNCHANGED <<nextTask, nextRun>>
  BY SettleFrame
<1>2. \A q \in DOMAIN runs : runs[q].status = "running" /\ runs[q].task = runs[r].task => q = r
  BY <1>1 DEF IInv, RunsOK, OpenRun
<1>3. \A q \in DOMAIN runs : runs[q].task \in {runs[r].task} => runs'[q].status # "running"
  BY <1>1, <1>2 DEF IInv, TypeOK, StoreTypeOK, RunRow
<1>4. /\ claim' \in {0, claim}
      /\ claim' # 0 => claim \notin {runs[r].task}
      /\ phase' = "claimed" <=> claim' # 0
      /\ gateway' \in {"down", "starting"} => claim' = 0
      /\ phase' = "slot" => phase = "slot"
  BY <1>1 DEF queueVars, IInv, ClaimOK, OpenRun
<1> QED BY <1>1, <1>3, <1>4, FrameInv

LEMMA ClientInv ==
  ASSUME IInv, Client, TypeOK', DbOK(tasks')
  PROVE  IInv'
<1>0. UNCHANGED queueVars /\ ClaimOK /\ RunsOK
  BY DEF Client, IInv
<1>1. CASE ClientUpdate \/ ClientCancel \/ ClientRetry \/ ClientRetryBatch
  <2>1. Frame({}) /\ UNCHANGED <<runs, nextTask, nextRun>>
    BY <1>1, ClientFrame
  <2>2. /\ claim' \in {0, claim}
        /\ phase' = "claimed" <=> claim' # 0
        /\ gateway' \in {"down", "starting"} => claim' = 0
        /\ phase' = "slot" => phase = "slot"
    BY <1>0 DEF queueVars, ClaimOK
  <2> QED BY <2>1, <2>2, FrameInv
<1>2. CASE ClientAdd
  <2>1. PICK dep \in TaskId \cup {0}, b \in Batches \cup {NoBatch}, c \in Cwds, p \in Prios, m \in RetryLimits :
          Add(dep, b, c, p, m)
    BY <1>2 DEF ClientAdd
  <2>2. /\ DOMAIN tasks' = DOMAIN tasks \cup {nextTask}
        /\ tasks'[nextTask].status = "pending"
        /\ \A t \in DOMAIN tasks \ {nextTask} : tasks'[t] = tasks[t]
        /\ nextTask' = nextTask + 1
        /\ UNCHANGED <<runs, nextRun>>
    BY <2>1 DEF Add
  <2>3. \A t \in DOMAIN tasks : t # nextTask /\ t < nextTask /\ t \in Nat /\ nextTask \in Nat
    BY <1>0, StoreConstants DEF RunsOK, IInv, TypeOK, StoreTypeOK, TaskId
  <2>4. \A t \in DOMAIN tasks' : t < nextTask'
    <3>1. nextTask \in Nat
      BY StoreConstants DEF IInv, TypeOK, StoreTypeOK
    <3> QED BY <2>2, <2>3, <3>1
  <2>5. Quiet
    BY <1>0, <2>2, <2>3 DEF Quiet, queueVars
  <2>6. \A r \in DOMAIN runs' : runs'[r].status = "running" =>
            runs[r].task \in DOMAIN tasks' /\ tasks'[runs[r].task].status \in {"running", "cancelled"}
    BY <1>0, <2>2, <2>3 DEF RunsOK, OpenRun
  <2>7. /\ claim \in DOMAIN tasks /\ claim # 0 => tasks'[claim].status \in {"running", "cancelled"}
        /\ UNCHANGED <<claim, phase, gateway>>
        /\ phase = "claimed" <=> claim # 0
        /\ gateway \in {"down", "starting"} => claim = 0
    BY <1>0, <2>2, <2>3 DEF ClaimOK, queueVars
  <2> QED BY <2>2, <2>4, <2>5, <2>6, <2>7, QuietInv
<1>3. ASSUME NEW t \in TaskId, Delete(t)
      PROVE  IInv'
  <2>1. Remove({t}) /\ OpenRuns(t) = {}
    BY <1>3 DEF Delete, Active
  <2> QED BY <1>0, <2>1, RemoveInv DEF queueVars
<1>4. CASE ClientAbandon
  BY <1>0, <1>4, SettleInv DEF ClientAbandon
<1> QED BY <1>1, <1>2, <1>3, <1>4 DEF Client, ClientDelete

\* The one step that is not quiet.
LEMMA DispatchInv ==
  ASSUME IInv, Dispatch, TypeOK', DbOK(tasks')
  PROVE  IInv'
<1>1. PICK t \in TaskId, excluded \in SUBSET Batches : ClaimNext(t, excluded) /\ claim' = t
  BY DEF Dispatch
<1>2. /\ phase = "slot" /\ phase' = "claimed" /\ gateway = "up" /\ gateway' = "up" /\ claim = 0
      /\ UNCHANGED <<runs, nextTask, nextRun>>
  BY <1>1 DEF Dispatch, ClaimNext, IInv, ClaimOK
<1>3. /\ t \in DOMAIN tasks /\ t # 0
      /\ tasks[t].status \in {"pending", "failed"}
      /\ OpenRuns(t) = {}
      /\ tasks[t].batch # NoBatch => \A u \in ActiveTasks : tasks[u].batch # tasks[t].batch
  BY <1>1 DEF ClaimNext, Runnable, Waiting, TaskId
<1>4. /\ DOMAIN tasks' = DOMAIN tasks
      /\ tasks'[t].status = "running" /\ tasks'[t].batch = tasks[t].batch
      /\ \A u \in DOMAIN tasks \ {t} : tasks'[u] = tasks[u]
  BY <1>1, <1>3 DEF ClaimNext, IInv, TypeOK, StoreTypeOK, TaskRow
<1>5. \A u \in DOMAIN tasks : u = t \/ (Occupied(u)' => Active(u))
  BY <1>1, <1>2, <1>4 DEF Occupied, Active, OpenRuns
<1>6. RunsOK'
  <2>1. \A r \in DOMAIN runs : runs[r].status = "running" => runs[r].task # t
    BY <1>3 DEF OpenRuns
  <2> QED BY <1>2, <1>4, <2>1 DEF IInv, RunsOK, OpenRun
<1>7. ClaimOK'
  <2>1. t < nextTask
    BY <1>3 DEF IInv, RunsOK
  <2>2. \A r \in DOMAIN runs : runs[r].status = "running" => runs[r].task # t
    BY <1>3 DEF OpenRuns
  <2> QED BY <1>1, <1>2, <1>3, <1>4, <2>1, <2>2 DEF ClaimOK, OpenRun
<1>8. BatchSerial'
  <2> SUFFICES ASSUME NEW u \in DOMAIN tasks, NEW v \in DOMAIN tasks, Occupied(u)', Occupied(v)',
                      tasks'[u].batch = tasks'[v].batch, tasks'[u].batch # NoBatch
               PROVE  u = v
    BY <1>4 DEF BatchSerial
  <2>1. tasks'[u].batch = tasks[u].batch /\ tasks'[v].batch = tasks[v].batch
    BY <1>4
  <2>2. CASE u # t /\ v # t
    BY <1>5, <2>1, <2>2 DEF IInv, BatchSerial, Occupied
  <2>3. CASE u = t /\ v # t
    BY <1>3, <1>5, <2>1, <2>3 DEF ActiveTasks
  <2>4. CASE u # t /\ v = t
    BY <1>3, <1>5, <2>1, <2>4 DEF ActiveTasks
  <2> QED BY <2>2, <2>3, <2>4
<1>9. ConcurrencyCap'
  <2>1. IsFiniteSet(InFlight) /\ Cardinality(InFlight) \in Nat /\ IsFiniteSet(InFlight') /\ Cardinality(InFlight') \in Nat
    <3>1. TypeOK
      BY DEF IInv
    <3>2. IsFiniteSet(TaskId)
      BY FS_Interval, StoreConstants DEF TaskId
    <3>3. InFlight' \subseteq TaskId
      BY DEF InFlight, TypeOK, StoreTypeOK
    <3> QED BY <3>1, <3>2, <3>3, InFlightFinite, FS_Subset, FS_CardinalityType
  <2>2. InFlight' \subseteq InFlight \cup {t}
    BY <1>4, <1>5 DEF InFlight, Occupied
  <2>3. /\ IsFiniteSet(InFlight \cup {t})
        /\ Cardinality(InFlight \cup {t}) <= Cardinality(InFlight) + 1
    <3> DEFINE before == InFlight
               after == InFlight \cup {t}
    <3>1. IsFiniteSet(after) /\ Cardinality(after) = IF t \in before THEN Cardinality(before) ELSE Cardinality(before) + 1
      BY <2>1, FS_AddElement
    <3> HIDE DEF before, after
    <3>2. Cardinality(before) \in Nat
      BY <2>1 DEF before
    <3>3. Cardinality(after) <= Cardinality(before) + 1
      BY <3>1, <3>2
    <3> QED BY <3>1, <3>3 DEF before, after
  <2>4. Cardinality(InFlight') <= Cardinality(InFlight \cup {t}) /\ Cardinality(InFlight \cup {t}) \in Nat
    BY <2>2, <2>3, FS_Subset, FS_CardinalityType
  <2>5. Cardinality(InFlight) < MaxConcurrency
    BY <1>2 DEF IInv, SlotOK, InFlight
  <2>6. Cardinality(InFlight') <= MaxConcurrency
    BY <2>1, <2>3, <2>4, <2>5, ConcurrencyAssumption
  <2> QED BY <2>6 DEF ConcurrencyCap, InFlight
<1>10. SlotOK'
  BY <1>2 DEF SlotOK
<1> QED BY <1>6, <1>7, <1>8, <1>9, <1>10 DEF IInv

\* The claim becomes a run: the same task in execution.
LEMMA StartRunInv ==
  ASSUME IInv, StartRun, TypeOK', DbOK(tasks')
  PROVE  IInv'
<1> DEFINE n == nextRun
<1>1. /\ phase = "claimed" /\ claim # 0 /\ claim \in DOMAIN tasks /\ claim' = 0
      /\ phase' \in {"look", "idle"} /\ gateway' = gateway
      /\ tasks' = tasks /\ nextTask' = nextTask /\ nextRun' = nextRun + 1
      /\ DOMAIN runs' = DOMAIN runs \cup {n}
      /\ runs'[n] = [task |-> claim, status |-> "running"]
      /\ \A r \in DOMAIN runs \ {n} : runs'[r] = runs[r]
  BY DEF StartRun, CreateRun, IInv, ClaimOK
<1>2. \A r \in DOMAIN runs : r < n /\ r # n /\ r \in Nat /\ n \in Nat
  BY StoreConstants DEF IInv, RunsOK, TypeOK, StoreTypeOK, RunId
<1>3. n \in Nat
  BY StoreConstants DEF IInv, TypeOK, StoreTypeOK
<1>4. /\ tasks[claim].status \in {"running", "cancelled"}
      /\ \A r \in DOMAIN runs : runs[r].status = "running" => runs[r].task # claim
  BY <1>1 DEF IInv, ClaimOK, OpenRun
<1>5. RunsOK'
  <2>1. \A r \in DOMAIN runs' : r < nextRun'
    BY <1>1, <1>2, <1>3
  <2>2. \A r \in DOMAIN runs' : runs'[r].status = "running" =>
          runs'[r].task \in DOMAIN tasks /\ tasks[runs'[r].task].status \in {"running", "cancelled"}
    BY <1>1, <1>2, <1>4 DEF IInv, RunsOK, OpenRun
  <2>3. \A q, r \in DOMAIN runs' :
          runs'[q].status = "running" /\ runs'[r].status = "running" /\ runs'[q].task = runs'[r].task => q = r
    BY <1>1, <1>2, <1>4 DEF IInv, RunsOK, OpenRun
  <2> QED BY <1>1, <2>1, <2>2, <2>3 DEF IInv, RunsOK, OpenRun
<1>6. ClaimOK'
  BY <1>1 DEF ClaimOK
<1>7. \A u \in DOMAIN tasks : Occupied(u)' => Occupied(u)
  <2> SUFFICES ASSUME NEW u \in DOMAIN tasks, Occupied(u)'
               PROVE  Occupied(u)
    OBVIOUS
  <2>1. CASE tasks[u].status = "running"
    BY <2>1 DEF Occupied, Active
  <2>2. CASE OpenRuns(u)' # {}
    <3>1. PICK r \in DOMAIN runs' : runs'[r].task = u /\ runs'[r].status = "running"
      BY <2>2 DEF OpenRuns
    <3>2. CASE r = n
      BY <1>1, <3>1, <3>2 DEF Occupied
    <3>3. CASE r # n
      BY <1>1, <3>1, <3>3 DEF Occupied, Active, OpenRuns
    <3> QED BY <3>2, <3>3
  <2>3. CASE u = claim'
    BY <1>1, <2>3 DEF IInv, TypeOK, StoreTypeOK, TaskId
  <2> QED BY <1>1, <2>1, <2>2, <2>3 DEF Occupied, Active
<1>8. BatchSerial'
  BY <1>1, <1>7 DEF IInv, BatchSerial
<1>9. ConcurrencyCap'
  <2>1. InFlight' \subseteq InFlight
    BY <1>1, <1>7 DEF InFlight
  <2>2. TypeOK
    BY DEF IInv
  <2>3. Cardinality(InFlight') <= Cardinality(InFlight) /\ Cardinality(InFlight') \in Nat /\ Cardinality(InFlight) \in Nat
    BY <2>1, <2>2, InFlightFinite, FS_Subset, FS_CardinalityType
  <2>4. Cardinality(InFlight) <= MaxConcurrency
    BY DEF IInv, ConcurrencyCap, InFlight
  <2>5. Cardinality(InFlight') <= MaxConcurrency
    BY <2>3, <2>4, ConcurrencyAssumption
  <2> QED BY <2>5 DEF ConcurrencyCap, InFlight
<1>10. SlotOK'
  BY <1>1 DEF SlotOK
<1> QED BY <1>5, <1>6, <1>8, <1>9, <1>10 DEF IInv

\* What the Worker counts is what is in execution, as long as it holds no claim.
LEMMA LookInv ==
  ASSUME IInv, Look, TypeOK', DbOK(tasks')
  PROVE  IInv'
<1>1. /\ UNCHANGED <<tasks, runs, nextTask, nextRun, gateway, claim>>
      /\ gateway = "up" /\ phase = "look" /\ claim = 0
      /\ \/ phase' = "idle"
         \/ phase' = "slot" /\ CountRunning < MaxConcurrency
  BY DEF Look, storeVars, IInv, ClaimOK
<1>2. ActiveTasks = InFlight
  BY <1>1 DEF ActiveTasks, InFlight, Occupied, IInv, TypeOK, StoreTypeOK, TaskId
<1>3. SlotOK'
  BY <1>1, <1>2 DEF SlotOK, CountRunning, InFlight, Occupied, Active, OpenRuns
<1>4. RunsOK' /\ BatchSerial' /\ ConcurrencyCap'
  BY <1>1 DEF IInv, RunsOK, OpenRun, BatchSerial, ConcurrencyCap, Occupied, Active, OpenRuns
<1>5. ClaimOK'
  BY <1>1 DEF IInv, ClaimOK, OpenRun
<1> QED BY <1>3, <1>4, <1>5 DEF IInv

LEMMA InvNext ==
  ASSUME IInv, [Next]_vars
  PROVE  IInv'
<1>1. TypeOK' /\ DbOK(tasks')
  BY TypeNext, DbNext DEF IInv
<1>2. /\ phase = "claimed" <=> claim # 0
      /\ gateway \in {"down", "starting"} => claim = 0
      /\ claim # 0 => \A r \in DOMAIN runs : runs[r].status = "running" => runs[r].task # claim
  BY DEF IInv, ClaimOK, OpenRun
<1>3. tasks' = tasks => Frame({})
  BY DEF Frame
<1>4. CASE Client
  BY <1>1, <1>4, ClientInv
<1>5. CASE GatewayStart \/ Poll
  <2>1. Frame(Orphans) /\ UNCHANGED <<runs, nextTask, nextRun, claim>>
    BY <1>5, ResetFrame DEF GatewayStart, Poll, ResetOrphans, ResetToPending
  <2>2. \A r \in DOMAIN runs : runs[r].task \in Orphans => runs[r].status # "running"
    BY DEF Orphans, OpenRuns
  <2>3. /\ claim = 0 /\ phase' # "claimed"
        /\ phase' = "slot" => phase = "slot"
    <3>1. CASE GatewayStart
      BY <1>2, <3>1 DEF GatewayStart
    <3>2. CASE Poll
      BY <1>2, <3>2 DEF Poll
    <3> QED BY <1>5, <3>1, <3>2
  <2> QED BY <1>1, <2>1, <2>2, <2>3, FrameInv
<1>6. CASE GatewayReady
  <2>1. PICK S \in SUBSET Waiting(tasks) : tasks' = Bury(tasks, S)
    BY <1>6 DEF GatewayReady, ResolveBlocked, Downstream
  <2>2. Frame({})
    BY <2>1, BuryFrame
  <2> QED BY <1>1, <1>2, <1>6, <2>2, FrameInv DEF GatewayReady, ResolveBlocked
<1>7. CASE GatewayStop \/ GatewayExit \/ NoDispatch \/ UNCHANGED vars
  <2>1. /\ Frame({}) /\ UNCHANGED <<runs, nextTask, nextRun>>
        /\ claim' \in {0, claim}
        /\ phase' = "claimed" <=> claim' # 0
        /\ gateway' \in {"down", "starting"} => claim' = 0
        /\ phase' = "slot" => phase = "slot"
    BY <1>2, <1>3, <1>7 DEF GatewayStop, GatewayExit, NoDispatch, vars, storeVars
  <2> QED BY <1>1, <2>1, FrameInv
<1>8. CASE Look
  BY <1>1, <1>8, LookInv
<1>9. CASE Dispatch
  BY <1>1, <1>9, DispatchInv
<1>10. CASE StartRun
  BY <1>1, <1>10, StartRunInv
<1>11. CASE StartFails
  <2>1. /\ claim # 0 /\ claim' = 0 /\ phase' \in {"look", "idle"} /\ gateway' = gateway
        /\ UNCHANGED <<runs, nextTask, nextRun>>
        /\ \A r \in DOMAIN runs : runs[r].task \in {claim} => runs'[r].status # "running"
    BY <1>2, <1>11 DEF StartFails, Fail, storeVars
  <2>2. CASE Fail(claim)
    <3> DEFINE row == FailedRow(tasks[claim], FALSE)
    <3>1. claim \in DOMAIN tasks /\ tasks[claim] \in TaskRow
      BY <2>2 DEF Fail, RunningTask, IInv, TypeOK, StoreTypeOK
    <3>2. row \in TaskRow /\ SameTask(row, tasks[claim]) /\ row.status \in {"dead_letter", "failed"}
      BY <3>1, RowTypes, RowFields
    <3>3. tasks' = Cascade([tasks EXCEPT ![claim] = row], claim)
      BY <2>2 DEF Fail
    <3> HIDE DEF row
    <3>4. Frame({claim})
      BY <3>1, <3>2, <3>3, CascadeFrame
    <3> QED BY <1>1, <2>1, <3>4, FrameInv
  <2>3. CASE UNCHANGED storeVars
    BY <1>1, <1>3, <2>1, <2>3, FrameInv DEF storeVars
  <2> QED BY <1>11, <2>2, <2>3 DEF StartFails
<1>12. CASE HandBack
  <2>1. PICK t \in Orphans \cup {claim} :
          /\ ResetToPending({t})
          /\ claim' = IF t = claim THEN 0 ELSE claim
          /\ phase' = IF t = claim THEN "idle" ELSE phase
    BY <1>12 DEF HandBack
  <2>2. Frame({t}) /\ UNCHANGED <<runs, nextTask, nextRun>> /\ gateway' = "stopping"
    BY <1>12, <2>1, ResetFrame DEF HandBack, ResetToPending
  <2>3. \A r \in DOMAIN runs : runs[r].task \in {t} => runs[r].status # "running"
    <3>1. CASE t \in Orphans
      BY <3>1 DEF Orphans, OpenRuns
    <3>2. CASE t = claim /\ claim # 0
      BY <1>2, <3>2
    <3>3. CASE t = claim /\ claim = 0
      BY <3>3 DEF IInv, TypeOK, StoreTypeOK, RunRow, TaskId
    <3> QED BY <2>1, <3>1, <3>2, <3>3
  <2>4. /\ claim' \in {0, claim} /\ (claim' # 0 => claim \notin {t})
        /\ phase' = "claimed" <=> claim' # 0
        /\ phase' = "slot" => phase = "slot"
    BY <1>2, <2>1
  <2> QED BY <1>1, <2>2, <2>3, <2>4, FrameInv
<1>13. CASE Execution
  BY <1>1, <1>13, SettleInv DEF Execution
<1>14. CASE Shutdown
  BY <1>1, <1>14, SettleInv DEF Shutdown
<1>15. CASE Retention
  <2>1. PICK page : Cleanup(page)
    BY <1>15 DEF Retention
  <2>2. Remove(Purgeable(page)) /\ \A t \in Purgeable(page) : OpenRuns(t) = {}
    BY <2>1 DEF Cleanup, Purgeable
  <2> QED BY <1>1, <1>15, <2>2, RemoveInv DEF Retention, queueVars
<1>16. CASE Backoff
  <2>1. PICK t \in TaskId : BackoffElapses(t)
    BY <1>16 DEF Backoff
  <2>2. \A u \in DOMAIN tasks : tasks'[u].status = tasks[u].status /\ tasks'[u].batch = tasks[u].batch
    BY <2>1 DEF BackoffElapses, IInv, TypeOK, StoreTypeOK, TaskRow
  <2>3. Frame({}) /\ UNCHANGED <<runs, nextTask, nextRun>>
    BY <2>1, <2>2 DEF Frame, BackoffElapses, IInv, TypeOK, StoreTypeOK
  <2> QED BY <1>1, <1>2, <1>16, <2>3, FrameInv DEF Backoff, queueVars
<1> QED BY <1>4, <1>5, <1>6, <1>7, <1>8, <1>9, <1>10, <1>11, <1>12, <1>13, <1>14, <1>15, <1>16 DEF Next

LEMMA InitInv ==
  ASSUME Init
  PROVE  IInv
<1>1. TypeOK
  BY StoreConstants DEF Init, StoreInit, TypeOK, StoreTypeOK, TaskId, RunId
<1>2. DOMAIN tasks = {} /\ DOMAIN runs = {} /\ claim = 0 /\ phase = "idle"
  BY DEF Init, StoreInit
<1>3. DbOK(tasks) /\ RunsOK /\ ClaimOK /\ BatchSerial /\ SlotOK
  BY <1>2 DEF DbOK, Waiting, RunsOK, ClaimOK, BatchSerial, SlotOK
<1>4. ConcurrencyCap
  <2>1. {t \in DOMAIN tasks : Occupied(t)} = {}
    BY <1>2
  <2>2. Cardinality({}) = 0
    BY FS_EmptySet
  <2>3. 0 <= MaxConcurrency
    BY ConcurrencyAssumption
  <2> QED BY <2>1, <2>2, <2>3 DEF ConcurrencyCap
<1> QED BY <1>1, <1>3, <1>4 DEF IInv

\* The inductive invariant: the tables, the open runs, the claim, the batches
\* and the slots of every reachable state.
THEOREM Invariance == Spec => []IInv
BY InitInv, InvNext, PTL DEF Spec

\* No two tasks of a batch are ever in execution together, for any number
\* of tasks, batches and slots, whatever is cancelled, retried or restarted.
THEOREM BatchesSerial == Spec => []BatchSerial
<1>1. IInv => BatchSerial
  BY DEF IInv
<1> QED BY <1>1, Invariance, PTL

\* Tasks in execution never exceed maxConcurrency, whatever the limit is.
THEOREM SlotsCapped == Spec => []ConcurrencyCap
<1>1. IInv => ConcurrencyCap
  BY DEF IInv
<1> QED BY <1>1, Invariance, PTL

\* A task has at most one open run, and a row to belong to.
THEOREM RunsUnique == Spec => []OneOpenRun
<1>1. IInv => OneOpenRun
  <2> SUFFICES ASSUME IInv, NEW r \in DOMAIN runs, runs[r].status = "running"
               PROVE  /\ runs[r].task \in DOMAIN tasks
                      /\ tasks[runs[r].task].status \in {"running", "cancelled"}
                      /\ OpenRuns(runs[r].task) = {r}
    BY DEF OneOpenRun
  <2>1. /\ runs[r].task \in DOMAIN tasks
        /\ tasks[runs[r].task].status \in {"running", "cancelled"}
    BY DEF IInv, RunsOK, OpenRun
  <2>2. \A q \in DOMAIN runs : runs[q].status = "running" /\ runs[q].task = runs[r].task => q = r
    BY DEF IInv, RunsOK, OpenRun
  <2>3. OpenRuns(runs[r].task) = {r}
    BY <2>2 DEF OpenRuns
  <2> QED BY <2>1, <2>3
<1> QED BY <1>1, Invariance, PTL

\* Dependency chains of any length: nothing waits for what cannot finish.
THEOREM NothingStranded == Spec => []NoStrandedTask
<1>1. IInv => NoStrandedTask
  BY DEF IInv, DbOK, NoStrandedTask
<1> QED BY <1>1, Invariance, PTL

\* What runs has its dependency done.
THEOREM InOrder == Spec => []DependencyFirst
<1>1. IInv => DependencyFirst
  BY DEF IInv, DbOK, DependencyFirst
<1> QED BY <1>1, Invariance, PTL

\* What may run again has budget left.
THEOREM BudgetKept == Spec => []WithinBudget
<1>1. IInv => WithinBudget
  BY DEF IInv, DbOK, WithinBudget
<1> QED BY <1>1, Invariance, PTL
=============================================================================
