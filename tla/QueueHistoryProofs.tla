------------------------- MODULE QueueHistoryProofs -------------------------
(***************************************************************************)
(* Theorems about what a step of TaskQueue may do to a row, for every      *)
(* value of the constants: final rows are final, nothing in flight is      *)
(* deleted, and nothing that may still be needed is.                       *)
(*                                                                         *)
(* Every step either rewrites rows (Steady) or removes rows nobody needs   *)
(* (Removes); lemma StepKind shows this once, the theorems follow.         *)
(***************************************************************************)
EXTENDS TaskQueueProofs

Over == {"done", "cancelled"}

\* What a rewritten row owes to the row it was.
SteadyRow(new, old) ==
  /\ new.dependsOn = old.dependsOn
  /\ old.status \in Over => new = old
  /\ new.status \in Over => new = old \/ ~new.wait

Steady ==
  /\ DOMAIN tasks \subseteq DOMAIN tasks' /\ DOMAIN runs \subseteq DOMAIN runs'
  /\ \A t \in DOMAIN tasks : SteadyRow(tasks'[t], tasks[t])
  /\ \A t \in DOMAIN tasks' \ DOMAIN tasks :
        tasks'[t].dependsOn \in DOMAIN tasks \cup {0} /\ tasks'[t].status = "pending"

Removes(S) ==
  /\ Remove(S)
  /\ \A t \in S \cap DOMAIN tasks : OpenRuns(t) = {}
  /\ \A u \in DOMAIN tasks \ S : tasks[u].dependsOn \in S => tasks[u].status \in Over

\* A row that is over has no retry ahead.
OverAtRest == \A t \in DOMAIN tasks : tasks[t].status \in Over => ~tasks[t].wait

HInv == IInv /\ OverAtRest /\ DependencyKept

-----------------------------------------------------------------------------

LEMMA EndedSteady ==
  ASSUME NEW row \in TaskRow, NEW old, SteadyRow(row, old), row.status \notin Over \/ old.status \notin Over,
         NEW s
  PROVE  SteadyRow(Ended(row, s), old)
<1>1. Ended(row, s).dependsOn = row.dependsOn /\ Ended(row, s).wait = FALSE
  BY DEF Ended, TaskRow
<1>2. old.status \notin Over
  BY DEF SteadyRow
<1> QED BY <1>1, <1>2 DEF SteadyRow

LEMMA SelfSteady ==
  ASSUME NEW row
  PROVE  SteadyRow(row, row)
BY DEF SteadyRow

\* Every operation on a row that is not over.
LEMMA RowsSteady ==
  ASSUME NEW row \in TaskRow, row.status \notin Over, NEW deadLetter
  PROVE  /\ \A s : SteadyRow(Ended(row, s), row)
         /\ SteadyRow(Pending(row), row)
         /\ SteadyRow([Pending(row) EXCEPT !.wait = FALSE], row)
         /\ SteadyRow(Requeued(row), row)
         /\ SteadyRow(FailedRow(row, deadLetter), row)
         /\ SteadyRow(RecoveredRow(row), row)
         /\ SteadyRow([row EXCEPT !.status = "running", !.finished = FALSE], row)
         /\ SteadyRow([row EXCEPT !.wait = FALSE], row)
<1> USE DEF Over
<1>1. \A s : SteadyRow(Ended(row, s), row)
  BY EndedSteady, SelfSteady
<1>2. /\ Pending(row).status = "pending" /\ Pending(row).dependsOn = row.dependsOn
      /\ Pending(row) \in TaskRow
  BY DEF Pending, TaskRow, TaskStatus
<1>3. SteadyRow(Pending(row), row)
  BY <1>2 DEF SteadyRow
<1>4. SteadyRow([Pending(row) EXCEPT !.wait = FALSE], row)
  BY <1>2 DEF SteadyRow, TaskRow
<1>5. SteadyRow(Requeued(row), row)
  BY <1>2 DEF SteadyRow, TaskRow, Requeued
<1>6. SteadyRow([row EXCEPT !.status = "running", !.finished = FALSE], row)
  BY DEF SteadyRow, TaskRow
<1>7. SteadyRow([row EXCEPT !.wait = FALSE], row)
  BY DEF SteadyRow, TaskRow
<1>8. /\ SameTask(FailedRow(row, deadLetter), row) /\ FailedRow(row, deadLetter).status \notin Over
      /\ SameTask(RecoveredRow(row), row) /\ RecoveredRow(row).status \notin Over
  BY RowFields
<1>9. SteadyRow(FailedRow(row, deadLetter), row) /\ SteadyRow(RecoveredRow(row), row)
  BY ONLY <1>8, row.status \notin Over DEF SteadyRow, SameTask
<1> QED BY ONLY <1>1, <1>3, <1>4, <1>5, <1>6, <1>7, <1>9

LEMMA EditSteady ==
  ASSUME NEW row \in TaskRow, row.status \notin Over, NEW b, NEW p, NEW m, NEW exhausted \in BOOLEAN
  PROVE  SteadyRow(EditedRow(row, b, p, m, exhausted), row)
<1>1. /\ EditedRow(row, b, p, m, exhausted).status \in {"dead_letter", row.status}
      /\ EditedRow(row, b, p, m, exhausted).dependsOn = row.dependsOn
  BY OtherRowFields
<1> QED BY <1>1 DEF SteadyRow, Over

\* The rows after a transaction that ends some waiting ones.
LEMMA BurySteady ==
  ASSUME NEW D, NEW old \in [D -> TaskRow], NEW mid \in [D -> TaskRow],
         \A t \in D : SteadyRow(mid[t], old[t]),
         NEW S \in SUBSET Waiting(mid)
  PROVE  /\ DOMAIN Bury(mid, S) = D
         /\ \A t \in D : SteadyRow(Bury(mid, S)[t], old[t])
<1>1. DOMAIN Bury(mid, S) = D /\ \A t \in D : Bury(mid, S)[t] = IF t \in S THEN Ended(mid[t], "dead_letter") ELSE mid[t]
  BY DEF Bury
<1>2. ASSUME NEW t \in D, t \in S PROVE SteadyRow(Ended(mid[t], "dead_letter"), old[t])
  <2>1. mid[t].status \notin Over BY <1>2 DEF Waiting, Over
  <2> QED BY <2>1, EndedSteady
<1> QED BY <1>1, <1>2

\* A transaction that writes one row, with or without the cascade.
LEMMA WriteSteady ==
  ASSUME StoreTypeOK, NEW t \in DOMAIN tasks, NEW row \in TaskRow, SteadyRow(row, tasks[t]),
         \/ tasks' = Cascade([tasks EXCEPT ![t] = row], t)
         \/ tasks' = [tasks EXCEPT ![t] = row],
         DOMAIN runs' = DOMAIN runs
  PROVE  Steady
<1> DEFINE D == DOMAIN tasks
           mid == [tasks EXCEPT ![t] = row]
<1>1. tasks \in [D -> TaskRow] /\ mid \in [D -> TaskRow]
  BY DEF StoreTypeOK
<1>2. \A u \in D : SteadyRow(mid[u], tasks[u])
  BY SelfSteady DEF StoreTypeOK
<1>3. tasks' = mid \/ \E S \in SUBSET Waiting(mid) : tasks' = Bury(mid, S)
  BY DEF Cascade, Downstream
<1> HIDE DEF mid
<1>4. DOMAIN tasks' = D /\ \A u \in D : SteadyRow(tasks'[u], tasks[u])
  <2>1. CASE tasks' = mid BY <1>1, <1>2, <2>1
  <2>2. ASSUME NEW S \in SUBSET Waiting(mid), tasks' = Bury(mid, S)
        PROVE DOMAIN tasks' = D /\ \A u \in D : SteadyRow(tasks'[u], tasks[u])
    BY <1>1, <1>2, <2>2, BurySteady
  <2> QED BY <1>3, <2>1, <2>2
<1> QED BY <1>4 DEF Steady

\* A transaction that leaves the rows of tasks alone.
LEMMA SameSteady ==
  ASSUME tasks' = tasks, DOMAIN runs \subseteq DOMAIN runs'
  PROVE  Steady
BY SelfSteady DEF Steady

LEMMA CloseDomain ==
  ASSUME NEW r, NEW s, Close(r, s)
  PROVE  DOMAIN runs' = DOMAIN runs
BY DEF Close

-----------------------------------------------------------------------------

LEMMA ClientSteady ==
  ASSUME HInv, Client
  PROVE  Steady \/ \E S : Removes(S)
<1>1. StoreTypeOK /\ \A t \in DOMAIN tasks : tasks[t] \in TaskRow
  BY DEF HInv, IInv, TypeOK, StoreTypeOK
<1>2. ASSUME NEW dep, NEW b, NEW c, NEW p, NEW m, Add(dep, b, c, p, m) PROVE Steady
  <2>1. nextTask \notin DOMAIN tasks
    BY DEF HInv, IInv, RunsOK, TypeOK, StoreTypeOK
  <2>2. dep \in DOMAIN tasks \cup {0}
    BY <1>2 DEF Add, Viable
  <2>3. /\ DOMAIN tasks' = DOMAIN tasks \cup {nextTask}
        /\ tasks'[nextTask].dependsOn = dep /\ tasks'[nextTask].status = "pending"
        /\ \A t \in DOMAIN tasks : tasks'[t] = tasks[t]
        /\ runs' = runs
    BY <1>2, <2>1 DEF Add
  <2> QED BY <2>2, <2>3, SelfSteady DEF Steady
<1>3. ASSUME NEW t, NEW b \in Batches \cup {NoBatch}, NEW p \in Prios, NEW m \in RetryLimits, Update(t, b, p, m) PROVE Steady
  <2> DEFINE row == EditedRow(tasks[t], b, p, m, Exhausted(t, m))
  <2>1. t \in DOMAIN tasks /\ tasks[t].status \notin Over /\ runs' = runs
    BY <1>3 DEF Update, Over
  <2>2. Exhausted(t, m) \in BOOLEAN BY DEF Exhausted
  <2>3. row \in TaskRow /\ SteadyRow(row, tasks[t])
    BY <1>1, <2>1, <2>2, EditedRowType, EditSteady
  <2>4. \/ tasks' = Cascade([tasks EXCEPT ![t] = row], t)
        \/ tasks' = [tasks EXCEPT ![t] = row]
    BY <1>3 DEF Update
  <2> HIDE DEF row
  <2> QED BY <1>1, <2>1, <2>3, <2>4, WriteSteady
<1>4. ASSUME NEW t, Cancel(t) PROVE Steady
  <2>1. t \in DOMAIN tasks /\ tasks[t].status \notin Over /\ runs' = runs
    BY <1>4 DEF Cancel, Over
  <2>2. Ended(tasks[t], "cancelled") \in TaskRow /\ SteadyRow(Ended(tasks[t], "cancelled"), tasks[t])
    BY <1>1, <2>1, RowTypes, RowsSteady DEF TaskStatus
  <2> QED BY <1>1, <1>4, <2>1, <2>2, WriteSteady DEF Cancel
<1>5. ASSUME NEW t, Retry(t) PROVE Steady
  <2>1. t \in DOMAIN tasks /\ tasks[t].status \notin Over /\ runs' = runs
    BY <1>5 DEF Retry, Over
  <2>2. Requeued(tasks[t]) \in TaskRow /\ SteadyRow(Requeued(tasks[t]), tasks[t])
    BY <1>1, <2>1, RowTypes, RowsSteady
  <2> QED BY <1>1, <1>5, <2>1, <2>2, WriteSteady DEF Retry
<1>6. ASSUME NEW b, RetryBatch(b) PROVE Steady
  <2>1. DOMAIN tasks' = DOMAIN tasks /\ runs' = runs
    BY <1>6 DEF RetryBatch
  <2>2. \A t \in Retryable(b) : tasks[t].status \notin Over
    BY DEF Retryable, Over
  <2>3. \A t \in DOMAIN tasks : tasks'[t] = IF t \in Retryable(b) THEN Requeued(tasks[t]) ELSE tasks[t]
    BY <1>6 DEF RetryBatch
  <2>4. \A t \in DOMAIN tasks : SteadyRow(tasks'[t], tasks[t])
    BY <1>1, <2>2, <2>3, RowsSteady, SelfSteady
  <2> QED BY <2>1, <2>4 DEF Steady
<1>7. ASSUME NEW t, Delete(t) PROVE Removes({t})
  <2>1. t \in DOMAIN tasks /\ OpenRuns(t) = {} /\ Remove({t})
    BY <1>7 DEF Delete, Active
  <2>2. \A u \in DOMAIN tasks : tasks[u].dependsOn = t => tasks[u].status \in Over
    BY <1>7 DEF Delete, Dependents, Over
  <2> QED BY <2>1, <2>2 DEF Removes
<1>8. CASE ClientAbandon
  BY <1>8, CloseDomain, SameSteady DEF ClientAbandon, CloseRun
<1>9. CASE ClientAdd BY <1>2, <1>9 DEF ClientAdd
<1>10. CASE ClientUpdate BY <1>3, <1>10 DEF ClientUpdate
<1>11. CASE ClientCancel \/ ClientRetry \/ ClientRetryBatch \/ ClientDelete
  BY <1>4, <1>5, <1>6, <1>7, <1>11 DEF ClientCancel, ClientRetry, ClientRetryBatch, ClientDelete
<1> QED BY <1>8, <1>9, <1>10, <1>11 DEF Client

LEMMA ResetSteady ==
  ASSUME HInv, NEW S, ResetToPending(S)
  PROVE  Steady
<1>1. \A t \in DOMAIN tasks : tasks[t] \in TaskRow
  BY DEF HInv, IInv, TypeOK, StoreTypeOK
<1>2. DOMAIN tasks' = DOMAIN tasks /\ runs' = runs
  BY DEF ResetToPending
<1>3. \A t \in DOMAIN tasks : tasks'[t] = IF t \in S /\ RunningTask(t) THEN Pending(tasks[t]) ELSE tasks[t]
  BY DEF ResetToPending
<1>4. \A t \in DOMAIN tasks : RunningTask(t) => tasks[t].status \notin Over
  BY DEF RunningTask, Over
<1>5. \A t \in DOMAIN tasks : SteadyRow(tasks'[t], tasks[t])
  BY <1>1, <1>3, <1>4, RowsSteady, SelfSteady
<1> QED BY <1>2, <1>5 DEF Steady

\* However an execution ends.
LEMMA SettleSteady ==
  ASSUME HInv, NEW r, Settle(r) \/ InterruptRun(r) \/ CloseRun(r)
  PROVE  Steady
<1> DEFINE t == runs[r].task
<1>1. StoreTypeOK /\ \A u \in DOMAIN tasks : tasks[u] \in TaskRow
  BY DEF HInv, IInv, TypeOK, StoreTypeOK
<1>2. RunningTask(t) => t \in DOMAIN tasks /\ tasks[t].status \notin Over
  BY DEF RunningTask, Over
<1>3. DOMAIN runs' = DOMAIN runs
  BY CloseDomain DEF Settle, CompleteRun, FailRun, RecoverRun, InterruptRun, CloseRun
<1>4. CASE tasks' = tasks
  BY <1>3, <1>4, SameSteady
<1>5. ASSUME RunningTask(t), NEW row \in TaskRow, SteadyRow(row, tasks[t]),
             \/ tasks' = Cascade([tasks EXCEPT ![t] = row], t)
             \/ tasks' = [tasks EXCEPT ![t] = row]
      PROVE  Steady
  BY <1>1, <1>2, <1>3, <1>5, WriteSteady
<1>6. ASSUME RunningTask(t)
      PROVE  /\ Ended(tasks[t], "done") \in TaskRow /\ SteadyRow(Ended(tasks[t], "done"), tasks[t])
             /\ \A d \in BOOLEAN : FailedRow(tasks[t], d) \in TaskRow /\ SteadyRow(FailedRow(tasks[t], d), tasks[t])
             /\ RecoveredRow(tasks[t]) \in TaskRow /\ SteadyRow(RecoveredRow(tasks[t]), tasks[t])
             /\ [Pending(tasks[t]) EXCEPT !.wait = FALSE] \in TaskRow
             /\ SteadyRow([Pending(tasks[t]) EXCEPT !.wait = FALSE], tasks[t])
  <2>1. tasks[t] \in TaskRow /\ tasks[t].status \notin Over
    BY <1>1, <1>2, <1>6
  <2>2. "done" \in TaskStatus BY DEF TaskStatus
  <2> HIDE DEF t
  <2> QED BY <2>1, <2>2, RowTypes, RowsSteady
<1>7. CASE CompleteRun(r)
  <2>1. RunningTask(t) /\ tasks' = [tasks EXCEPT ![t] = Ended(tasks[t], "done")]
    BY <1>7 DEF CompleteRun
  <2> HIDE DEF t
  <2> QED BY <1>5, <1>6, <2>1
<1>8. ASSUME NEW d \in BOOLEAN, FailRun(r, d) PROVE Steady
  <2>1. RunningTask(t) /\ tasks' = Cascade([tasks EXCEPT ![t] = FailedRow(tasks[t], d)], t)
    BY <1>8 DEF FailRun
  <2> HIDE DEF t
  <2> QED BY <1>5, <1>6, <2>1
<1>9. CASE RecoverRun(r)
  <2>1. \/ tasks' = tasks
        \/ RunningTask(t) /\ tasks' = Cascade([tasks EXCEPT ![t] = RecoveredRow(tasks[t])], t)
    BY <1>9 DEF RecoverRun
  <2> HIDE DEF t
  <2> QED BY <1>4, <1>5, <1>6, <2>1
<1>10. CASE InterruptRun(r)
  <2>1. \/ tasks' = tasks
        \/ RunningTask(t) /\ tasks' = [tasks EXCEPT ![t] = [Pending(tasks[t]) EXCEPT !.wait = FALSE]]
    BY <1>10 DEF InterruptRun
  <2> HIDE DEF t
  <2> QED BY <1>4, <1>5, <1>6, <2>1
<1>11. CASE CloseRun(r)
  BY <1>4, <1>11 DEF CloseRun
<1> QED BY <1>7, <1>8, <1>9, <1>10, <1>11 DEF Settle

-----------------------------------------------------------------------------

LEMMA StepKind ==
  ASSUME HInv, [Next]_vars
  PROVE  Steady \/ \E S : Removes(S)
<1>1. StoreTypeOK /\ \A t \in DOMAIN tasks : tasks[t] \in TaskRow
  BY DEF HInv, IInv, TypeOK, StoreTypeOK
<1>2. CASE Client BY <1>2, ClientSteady
<1>3. CASE GatewayStart \/ Poll \/ HandBack
  BY <1>3, ResetSteady DEF GatewayStart, Poll, HandBack, ResetOrphans
<1>4. CASE GatewayReady
  <2>1. PICK S \in SUBSET Waiting(tasks) : tasks' = Bury(tasks, S)
    BY <1>4 DEF GatewayReady, ResolveBlocked, Downstream
  <2>2. runs' = runs /\ tasks \in [DOMAIN tasks -> TaskRow]
    BY <1>1, <1>4 DEF GatewayReady, ResolveBlocked, StoreTypeOK
  <2> QED BY <2>1, <2>2, BurySteady, SelfSteady DEF Steady
<1>5. CASE Dispatch
  <2>1. PICK t \in TaskId, excluded \in SUBSET Batches : ClaimNext(t, excluded)
    BY <1>5 DEF Dispatch
  <2> DEFINE row == [tasks[t] EXCEPT !.status = "running", !.finished = FALSE]
  <2>2. t \in DOMAIN tasks /\ tasks[t].status \notin Over
    BY <2>1 DEF ClaimNext, Runnable, Waiting, Over
  <2>3. row \in TaskRow /\ SteadyRow(row, tasks[t])
    BY <1>1, <2>2, RowTypes, RowsSteady
  <2>4. tasks' = [tasks EXCEPT ![t] = row] /\ runs' = runs
    BY <2>1 DEF ClaimNext
  <2> HIDE DEF row
  <2> QED BY <1>1, <2>2, <2>3, <2>4, WriteSteady
<1>6. CASE StartRun
  BY <1>6, SameSteady DEF StartRun, CreateRun
<1>7. CASE StartFails
  <2>1. CASE Fail(claim)
    <3>1. claim \in DOMAIN tasks /\ tasks[claim].status \notin Over /\ runs' = runs
      BY <2>1 DEF Fail, RunningTask, Over
    <3>2. FailedRow(tasks[claim], FALSE) \in TaskRow /\ SteadyRow(FailedRow(tasks[claim], FALSE), tasks[claim])
      BY <1>1, <3>1, RowTypes, RowsSteady
    <3>3. tasks' = Cascade([tasks EXCEPT ![claim] = FailedRow(tasks[claim], FALSE)], claim)
      BY <2>1 DEF Fail
    <3> QED BY <1>1, <3>1, <3>2, <3>3, WriteSteady
  <2>2. CASE UNCHANGED storeVars BY <2>2, SameSteady DEF storeVars
  <2> QED BY <1>7, <2>1, <2>2 DEF StartFails
<1>8. CASE Execution \/ Shutdown
  BY <1>8, SettleSteady DEF Execution, Shutdown
<1>9. CASE Retention
  <2>1. PICK page \in SUBSET DOMAIN tasks : Cleanup(page)
    BY <1>9 DEF Retention
  <2>2. \A t \in Purgeable(page) : OpenRuns(t) = {}
    BY <2>1 DEF Cleanup, Purgeable
  <2>3. \A u \in DOMAIN tasks \ Purgeable(page) : tasks[u].dependsOn \notin Purgeable(page)
    BY PurgeableClosed
  <2>4. Removes(Purgeable(page))
    BY <2>1, <2>2, <2>3 DEF Removes, Cleanup
  <2> QED BY <2>4
<1>10. CASE Backoff
  <2>1. PICK t : BackoffElapses(t)
    BY <1>10 DEF Backoff
  <2>2. t \in DOMAIN tasks /\ tasks[t].status \notin Over /\ runs' = runs
    BY <2>1 DEF BackoffElapses, HInv, OverAtRest
  <2>3. [tasks[t] EXCEPT !.wait = FALSE] \in TaskRow /\ SteadyRow([tasks[t] EXCEPT !.wait = FALSE], tasks[t])
    BY <1>1, <2>2, RowTypes, RowsSteady
  <2> QED BY <1>1, <2>1, <2>2, <2>3, WriteSteady DEF BackoffElapses
<1>11. CASE GatewayStop \/ GatewayExit \/ Look \/ NoDispatch \/ UNCHANGED vars
  BY <1>11, SameSteady DEF GatewayStop, GatewayExit, Look, NoDispatch, vars, storeVars
<1> QED BY <1>2, <1>3, <1>4, <1>5, <1>6, <1>7, <1>8, <1>9, <1>10, <1>11 DEF Next

\* What a step that removes rows leaves of the others.
LEMMA RemovesRest ==
  ASSUME NEW S, Removes(S)
  PROVE  /\ DOMAIN tasks' = DOMAIN tasks \ S
         /\ \A t \in DOMAIN tasks' : tasks'[t] = tasks[t]
         /\ DOMAIN runs' = {r \in DOMAIN runs : runs[r].task \notin S}
BY DEF Removes, Remove

LEMMA KeptStep ==
  ASSUME HInv, [Next]_vars
  PROVE  HInv'
<1>1. IInv' BY InvNext DEF HInv
<1>2. CASE Steady
  <2>1. OverAtRest'
    <3> SUFFICES ASSUME NEW t \in DOMAIN tasks', tasks'[t].status \in Over PROVE ~tasks'[t].wait
      BY DEF OverAtRest
    <3>1. t \in DOMAIN tasks BY <1>2 DEF Steady, Over
    <3> QED BY <1>2, <3>1 DEF Steady, SteadyRow, HInv, OverAtRest
  <2>2. DependencyKept'
    <3> SUFFICES ASSUME NEW t \in DOMAIN tasks',
                        tasks'[t].status \in {"pending", "running", "failed", "dead_letter"}
                 PROVE  tasks'[t].dependsOn \in DOMAIN tasks' \cup {0}
      BY DEF DependencyKept
    <3>1. CASE t \notin DOMAIN tasks BY <1>2, <3>1 DEF Steady
    <3>2. CASE t \in DOMAIN tasks
      <4>1. SteadyRow(tasks'[t], tasks[t]) BY <1>2, <3>2 DEF Steady
      <4>2. tasks[t].status \notin Over
        BY <4>1 DEF SteadyRow, Over
      <4>3. tasks[t].status \in TaskStatus BY <3>2 DEF HInv, IInv, TypeOK, StoreTypeOK, TaskRow
      <4>4. tasks[t].dependsOn \in DOMAIN tasks \cup {0}
        BY <3>2, <4>2, <4>3 DEF HInv, DependencyKept, Over, TaskStatus
      <4> QED BY <1>2, <4>1, <4>4 DEF Steady, SteadyRow
    <3> QED BY <3>1, <3>2
  <2> QED BY <1>1, <2>1, <2>2 DEF HInv
<1>3. ASSUME NEW S, Removes(S) PROVE HInv'
  <2>1. OverAtRest' BY <1>3, RemovesRest DEF HInv, OverAtRest
  <2>2. DependencyKept'
    <3> SUFFICES ASSUME NEW t \in DOMAIN tasks',
                        tasks'[t].status \in {"pending", "running", "failed", "dead_letter"}
                 PROVE  tasks'[t].dependsOn \in DOMAIN tasks' \cup {0}
      BY DEF DependencyKept
    <3>1. t \in DOMAIN tasks \ S /\ tasks'[t] = tasks[t] BY <1>3, RemovesRest
    <3>2. tasks[t].dependsOn \in DOMAIN tasks \cup {0} BY <3>1 DEF HInv, DependencyKept
    <3>3. tasks[t].dependsOn \notin S BY <1>3, <3>1 DEF Removes, Over
    <3>4. DOMAIN tasks' = DOMAIN tasks \ S BY <1>3, RemovesRest
    <3> QED BY <3>1, <3>2, <3>3, <3>4
  <2> QED BY <1>1, <2>1, <2>2 DEF HInv
<1> QED BY <1>2, <1>3, StepKind

LEMMA KeptInit == Init => HInv
<1> SUFFICES ASSUME Init PROVE HInv
  OBVIOUS
<1>1. DOMAIN tasks = {} BY DEF Init, StoreInit
<1> QED BY <1>1, InitInv DEF HInv, OverAtRest, DependencyKept

(* What the theorems below need of every reachable state: the invariant of *)
(* the queue, that a task that is over waits for no retry (cancel and      *)
(* completeRun clear retryAfter), and that dependencies are kept.          *)
THEOREM HistoryInvariance == Spec => []HInv
  BY KeptInit, KeptStep, PTL DEF Spec

\* What a stored task may still have to run after is stored: delete and the
\* retention cleanup leave it, for chains of any length.
THEOREM DependenciesKept == Spec => []DependencyKept
<1>1. HInv => DependencyKept BY DEF HInv
<1> QED BY <1>1, HistoryInvariance, PTL

\* done and cancelled rows never change, whoever settles, retries, resets,
\* edits or ends what.
THEOREM FinalIsFinal == Spec => Final
<1>1. ASSUME HInv, [Next]_vars
      PROVE  [\A t \in DOMAIN tasks : tasks[t].status \in {"done", "cancelled"} =>
                t \notin DOMAIN tasks' \/ tasks'[t] = tasks[t]]_vars
  <2>1. CASE Steady BY <2>1 DEF Steady, SteadyRow, Over
  <2>2. ASSUME NEW S, Removes(S)
        PROVE \A t \in DOMAIN tasks : t \notin DOMAIN tasks' \/ tasks'[t] = tasks[t]
    BY <2>2, RemovesRest
  <2> QED BY <1>1, <2>1, <2>2, StepKind
<1> QED BY <1>1, HistoryInvariance, PTL DEF Spec, Final

\* No open run and no task of one is ever deleted.
THEOREM InFlightKept == Spec => NoRowLostInFlight
<1>1. ASSUME HInv, [Next]_vars
      PROVE  [\A r \in DOMAIN runs : OpenRun(r) => r \in DOMAIN runs' /\ runs[r].task \in DOMAIN tasks']_vars
  <2> SUFFICES ASSUME NEW r \in DOMAIN runs, OpenRun(r)
               PROVE  r \in DOMAIN runs' /\ runs[r].task \in DOMAIN tasks'
    OBVIOUS
  <2>1. runs[r].task \in DOMAIN tasks BY <1>1 DEF HInv, IInv, RunsOK
  <2>2. CASE Steady BY <2>1, <2>2 DEF Steady
  <2>3. ASSUME NEW S, Removes(S) PROVE r \in DOMAIN runs' /\ runs[r].task \in DOMAIN tasks'
    <3>1. r \in OpenRuns(runs[r].task) BY DEF OpenRun, OpenRuns
    <3>2. runs[r].task \notin S BY <2>1, <2>3, <3>1 DEF Removes
    <3>3. /\ DOMAIN tasks' = DOMAIN tasks \ S
          /\ DOMAIN runs' = {q \in DOMAIN runs : runs[q].task \notin S}
      BY <2>3, RemovesRest
    <3> QED BY <2>1, <3>2, <3>3
  <2> QED BY <1>1, <2>2, <2>3, StepKind
<1> QED BY <1>1, HistoryInvariance, PTL DEF Spec, NoRowLostInFlight
-----------------------------------------------------------------------------
(* A database an older release left behind.  Nothing is known of what its  *)
(* tasks depend on or have used of their budgets, so the invariant of the  *)
(* queue does not hold there; DependencyFirst does, and is kept by every   *)
(* step on its own.  The first start makes NoStrandedTask true, and from   *)
(* then on every step keeps it, DependencyFirst given: a task that leaves  *)
(* execution for the queue has its dependency done.                        *)

StoredDatabase ==
  /\ TypeOK
  /\ \A t \in DOMAIN tasks : t < nextTask
  /\ DependencyFirst
  /\ gateway = "down" /\ phase = "idle" /\ claim = 0

StoredSpec == StoredDatabase /\ [][Next]_vars

RInv ==
  /\ TypeOK
  /\ \A t \in DOMAIN tasks : t < nextTask
  /\ DependencyFirst
  /\ RepairedOnStart

SameNeeds(new, old) == new.dependsOn = old.dependsOn /\ new.cwd = old.cwd

\* A step that keeps every row: what is done stays done, and what starts
\* has its dependency done.
Keeps ==
  /\ \A t \in DOMAIN tasks :
        /\ t \in DOMAIN tasks'
        /\ SameNeeds(tasks'[t], tasks[t])
        /\ tasks[t].status = "done" => tasks'[t].status = "done"
  /\ \A t \in DOMAIN tasks' : tasks'[t].status = "running" =>
        t \in DOMAIN tasks /\ (tasks[t].status = "running" \/ DependencyDone(t))

\* What enters the queue has something to wait for, and what can no longer
\* finish has nothing waiting for it.
Provides ==
  /\ \A t \in Waiting(tasks') :
        \/ t \in Waiting(tasks) \/ RunningTask(t)
        \/ Viable(tasks, tasks'[t].dependsOn, tasks'[t].cwd)
        \/ Viable(tasks', tasks'[t].dependsOn, tasks'[t].cwd)
  /\ \A u \in DOMAIN tasks : Recoverable(tasks[u]) =>
        Recoverable(tasks'[u]) \/ \A t \in Waiting(tasks') : tasks'[t].dependsOn # u

LEMMA StrandedViable ==
  ASSUME StoreTypeOK
  PROVE  NoStrandedTask <=> \A t \in Waiting(tasks) : Viable(tasks, tasks[t].dependsOn, tasks[t].cwd)
<1>1. \A u \in DOMAIN tasks : tasks[u].status \in TaskStatus
  BY DEF StoreTypeOK, TaskRow
<1>2. ASSUME NEW u \in DOMAIN tasks
      PROVE  Recoverable(tasks[u]) <=>
               /\ tasks[u].status \notin {"dead_letter", "cancelled"}
               /\ tasks[u].status = "failed" => tasks[u].retryCount <= tasks[u].maxRetries
  BY <1>1 DEF Recoverable, TaskStatus
<1> QED BY <1>2 DEF NoStrandedTask, Viable

LEMMA KeepsOrder ==
  ASSUME DependencyFirst, Keeps
  PROVE  DependencyFirst'
<1> SUFFICES ASSUME NEW t \in DOMAIN tasks', tasks'[t].status = "running", tasks'[t].dependsOn # 0
             PROVE  /\ tasks'[t].dependsOn \in DOMAIN tasks'
                    /\ tasks'[tasks'[t].dependsOn].status = "done"
                    /\ tasks'[tasks'[t].dependsOn].cwd = tasks'[t].cwd
  BY DEF DependencyFirst
<1> DEFINE u == tasks[t].dependsOn
<1>1. t \in DOMAIN tasks /\ SameNeeds(tasks'[t], tasks[t])
  BY DEF Keeps
<1>2. u \in DOMAIN tasks /\ tasks[u].status = "done" /\ tasks[u].cwd = tasks[t].cwd
  BY <1>1 DEF Keeps, SameNeeds, DependencyFirst, DependencyDone
<1>3. u \in DOMAIN tasks' /\ tasks'[u].status = "done" /\ tasks'[u].cwd = tasks[u].cwd
  BY <1>2 DEF Keeps, SameNeeds
<1> QED BY <1>1, <1>2, <1>3 DEF SameNeeds

LEMMA ProvidesKept ==
  ASSUME StoreTypeOK, StoreTypeOK', DependencyFirst, NoStrandedTask, Keeps, Provides
  PROVE  NoStrandedTask'
<1>1. \A t \in Waiting(tasks) : Viable(tasks, tasks[t].dependsOn, tasks[t].cwd)
  BY StrandedViable
<1>2. ASSUME NEW t \in Waiting(tasks')
      PROVE  Viable(tasks', tasks'[t].dependsOn, tasks'[t].cwd)
  <2> DEFINE u == tasks'[t].dependsOn
  <2>1. CASE Viable(tasks', u, tasks'[t].cwd)
    BY <2>1
  <2>2. CASE Viable(tasks, u, tasks'[t].cwd)
    <3>1. CASE u = 0
      BY <3>1 DEF Viable
    <3>2. CASE u # 0
      <4>1. u \in DOMAIN tasks /\ tasks[u].cwd = tasks'[t].cwd /\ Recoverable(tasks[u])
        BY <2>2, <3>2 DEF Viable
      <4>2. Recoverable(tasks'[u])
        BY <4>1 DEF Provides
      <4>3. u \in DOMAIN tasks' /\ tasks'[u].cwd = tasks[u].cwd
        BY <4>1 DEF Keeps, SameNeeds
      <4> QED BY <4>1, <4>2, <4>3 DEF Viable
    <3> QED BY <3>1, <3>2
  <2>3. CASE t \in Waiting(tasks)
    <3>1. t \in DOMAIN tasks
      BY <2>3 DEF Waiting
    <3>2. SameNeeds(tasks'[t], tasks[t])
      BY <3>1 DEF Keeps
    <3> QED BY <1>1, <2>2, <2>3, <3>2 DEF SameNeeds
  <2>4. CASE RunningTask(t)
    <3>1. t \in DOMAIN tasks /\ tasks[t].status = "running"
      BY <2>4 DEF RunningTask
    <3>2. SameNeeds(tasks'[t], tasks[t])
      BY <3>1 DEF Keeps
    <3>3. Viable(tasks, tasks[t].dependsOn, tasks[t].cwd)
      BY <3>1 DEF DependencyFirst, Viable, Recoverable
    <3> QED BY <2>2, <3>2, <3>3 DEF SameNeeds
  <2> QED BY <2>1, <2>2, <2>3, <2>4 DEF Provides
<1>3. NoStrandedTask' <=> \A t \in Waiting(tasks') : Viable(tasks', tasks'[t].dependsOn, tasks'[t].cwd)
  <2>1. \A u \in DOMAIN tasks' : tasks'[u].status \in TaskStatus
    BY DEF StoreTypeOK, TaskRow
  <2>2. ASSUME NEW u \in DOMAIN tasks'
        PROVE  Recoverable(tasks'[u]) <=>
                 /\ tasks'[u].status \notin {"dead_letter", "cancelled"}
                 /\ tasks'[u].status = "failed" => tasks'[u].retryCount <= tasks'[u].maxRetries
    BY <2>1 DEF Recoverable, TaskStatus
  <2> QED BY <2>2 DEF NoStrandedTask, Viable
<1> QED BY <1>2, <1>3

\* The rows after the waiting tasks of S were ended, when S holds all of
\* them that wait for one of kin.
Spared(new, mid, S, kin) ==
  /\ DOMAIN new = DOMAIN mid
  /\ \A u \in DOMAIN mid : SameNeeds(new[u], mid[u])
  /\ \A u \in DOMAIN mid : mid[u].status \notin {"pending", "failed"} => new[u] = mid[u]
  /\ \A u \in DOMAIN mid : new[u].status # "dead_letter" => new[u] = mid[u]
  /\ \A u \in Waiting(new) : u \in Waiting(mid) \ S /\ mid[u].dependsOn \notin kin
  /\ \A u \in DOMAIN mid \ S : new[u] = mid[u]

\* The cascade leaves nothing waiting for what it ends.
LEMMA BuryProvides ==
  ASSUME NEW D, NEW mid \in [D -> TaskRow], NEW S \in SUBSET Waiting(mid),
         NEW kin, \A u \in Waiting(mid) : mid[u].dependsOn \in kin => u \in S
  PROVE  Spared(Bury(mid, S), mid, S, kin)
<1> DEFINE new == Bury(mid, S)
<1>1. DOMAIN new = D /\ \A u \in D : new[u] = IF u \in S THEN Ended(mid[u], "dead_letter") ELSE mid[u]
  BY DEF Bury
<1>2. \A u \in D : /\ Ended(mid[u], "dead_letter").status = "dead_letter"
                   /\ SameNeeds(Ended(mid[u], "dead_letter"), mid[u])
  BY DEF Ended, TaskRow, SameNeeds
<1>3. \A u \in S : u \in D /\ mid[u].status \in {"pending", "failed"}
  BY DEF Waiting
<1> HIDE DEF new
<1>4. \A u \in D : SameNeeds(new[u], mid[u])
  BY <1>1, <1>2 DEF SameNeeds
<1>5. \A u \in D : new[u].status # "dead_letter" => new[u] = mid[u] /\ u \notin S
  BY <1>1, <1>2
<1>6. ASSUME NEW u \in Waiting(new) PROVE u \in Waiting(mid) \ S /\ mid[u].dependsOn \notin kin
  <2>1. u \in D /\ new[u].status \in {"pending", "failed"}
    BY <1>1, <1>6 DEF Waiting
  <2>2. u \notin S /\ mid[u] = new[u]
    BY <1>5, <2>1
  <2>3. u \in Waiting(mid)
    BY <2>1, <2>2 DEF Waiting
  <2> QED BY <2>2, <2>3
<1>7. \A u \in D : mid[u].status \notin {"pending", "failed"} => new[u] = mid[u]
  BY <1>1, <1>3
<1>8. Spared(new, mid, S, kin)
  BY <1>1, <1>4, <1>5, <1>6, <1>7 DEF Spared
<1> QED BY <1>8 DEF new

\* A transaction that writes one row, with or without the cascade.
LEMMA WriteProvides ==
  ASSUME StoreTypeOK, NEW t \in DOMAIN tasks, NEW row \in TaskRow, SameNeeds(row, tasks[t]),
         tasks[t].status = "done" => row.status = "done",
         row.status = "running" => tasks[t].status = "running" \/ DependencyDone(t),
         row.status \in {"pending", "failed"} =>
            \/ tasks[t].status \in {"pending", "failed", "running"}
            \/ Viable(tasks, tasks[t].dependsOn, tasks[t].cwd),
         \/ /\ tasks' = Cascade([tasks EXCEPT ![t] = row], t)
            /\ row.status \in {"dead_letter", "cancelled"} \/ Recoverable(row)
         \/ /\ tasks' = [tasks EXCEPT ![t] = row]
            /\ Recoverable(row) \/ ~Recoverable(tasks[t])
  PROVE  Keeps /\ Provides
<1> DEFINE D == DOMAIN tasks
           mid == [tasks EXCEPT ![t] = row]
           S == Downstream(mid, {t})
<1>1. /\ tasks \in [D -> TaskRow] /\ mid \in [D -> TaskRow]
      /\ mid[t] = row
      /\ \A u \in D \ {t} : mid[u] = tasks[u]
  BY DEF StoreTypeOK
<1>2. \/ row.status \in {"dead_letter", "cancelled"} /\ tasks' = Bury(mid, S)
      \/ tasks' = mid /\ (Recoverable(row) \/ ~Recoverable(tasks[t]))
  BY <1>1 DEF Cascade, Recoverable
<1>3. S \in SUBSET Waiting(mid)
  BY DEF Downstream
<1>4. \A u \in Waiting(mid) : mid[u].dependsOn \in {t} \cup S => u \in S
  BY DownstreamClosed
<1> HIDE DEF mid, S
<1>5. \A u \in D : /\ SameNeeds(mid[u], tasks[u])
                   /\ tasks[u].status = "done" => mid[u].status = "done"
                   /\ mid[u].status = "running" => tasks[u].status = "running" \/ DependencyDone(u)
  BY <1>1 DEF SameNeeds
<1>6. \A u \in Waiting(mid) : u \in Waiting(tasks) \/ RunningTask(u) \/ Viable(tasks, mid[u].dependsOn, mid[u].cwd)
  BY <1>1, <1>5 DEF Waiting, RunningTask, SameNeeds
<1>7. CASE tasks' = mid /\ (Recoverable(row) \/ ~Recoverable(tasks[t]))
  <2>1. Keeps
    BY <1>1, <1>5, <1>7 DEF Keeps
  <2>2. \A u \in D : Recoverable(tasks[u]) => Recoverable(mid[u])
    BY <1>1, <1>7
  <2> QED BY <1>6, <1>7, <2>1, <2>2 DEF Provides
<1>8. CASE row.status \in {"dead_letter", "cancelled"} /\ tasks' = Bury(mid, S)
  <2>1. /\ DOMAIN tasks' = D
        /\ \A u \in D : SameNeeds(tasks'[u], mid[u])
        /\ \A u \in D : mid[u].status \notin {"pending", "failed"} => tasks'[u] = mid[u]
        /\ \A u \in D : tasks'[u].status # "dead_letter" => tasks'[u] = mid[u]
        /\ \A u \in Waiting(tasks') : u \in Waiting(mid) \ S /\ mid[u].dependsOn \notin {t} \cup S
        /\ \A u \in D \ S : tasks'[u] = mid[u]
    <3> DEFINE kin == {t} \cup S
    <3>1. \A u \in Waiting(mid) : mid[u].dependsOn \in kin => u \in S
      BY <1>4
    <3> HIDE DEF kin
    <3>2. Spared(Bury(mid, S), mid, S, kin)
      BY ONLY <1>1, <1>3, <3>1, BuryProvides
    <3> QED BY ONLY <3>2, <1>1, <1>8 DEF Spared, kin
  <2>2. Keeps
    BY <1>5, <2>1 DEF Keeps, SameNeeds
  <2>3. \A u \in Waiting(tasks') : u \in Waiting(tasks)
    BY <1>1, <1>8, <2>1 DEF Waiting
  <2>4. \A u \in D : u \in {t} \cup S \/ tasks'[u] = tasks[u]
    BY <1>1, <2>1
  <2>5. \A w \in Waiting(tasks') : tasks'[w].dependsOn \notin {t} \cup S
    <3> TAKE w \in Waiting(tasks')
    <3>1. w \in D /\ tasks'[w].dependsOn = mid[w].dependsOn
      BY <2>1 DEF Waiting, SameNeeds
    <3> QED BY <2>1, <3>1
  <2> QED BY <2>2, <2>3, <2>4, <2>5 DEF Provides
<1> QED BY <1>2, <1>7, <1>8

LEMMA SameProvides ==
  ASSUME tasks' = tasks
  PROVE  Keeps /\ Provides
BY DEF Keeps, Provides, SameNeeds, Waiting

\* What keeps the invariant, of steps that delete no task.
LEMMA KeptRows ==
  ASSUME RInv, TypeOK', Keeps, gateway' \in {"up", "stopping"} => gateway \in {"up", "stopping"} /\ Provides,
         \A t \in DOMAIN tasks' : t < nextTask'
  PROVE  RInv'
<1>1. DependencyFirst'
  BY KeepsOrder DEF RInv
<1>2. RepairedOnStart'
  <2> SUFFICES ASSUME gateway' \in {"up", "stopping"} PROVE NoStrandedTask'
    BY DEF RepairedOnStart
  <2>1. StoreTypeOK /\ StoreTypeOK'
    BY DEF RInv, TypeOK
  <2> QED BY <2>1, ProvidesKept DEF RInv, RepairedOnStart
<1> QED BY <1>1, <1>2 DEF RInv

LEMMA RemovedRows ==
  ASSUME RInv, TypeOK', NEW S, Remove(S), gateway' = gateway,
         \A u \in DOMAIN tasks \ S : tasks[u].dependsOn \in S => tasks[u].status \in Over
  PROVE  RInv'
<1>1. /\ DOMAIN tasks' = DOMAIN tasks \ S
      /\ \A t \in DOMAIN tasks' : tasks'[t] = tasks[t]
      /\ nextTask' = nextTask
  BY DEF Remove
<1>2. \A t \in DOMAIN tasks' : tasks[t].status \notin Over => tasks[t].dependsOn \notin S
  BY <1>1
<1>3. DependencyFirst'
  BY <1>1, <1>2 DEF RInv, DependencyFirst, Over
<1>4. NoStrandedTask => NoStrandedTask'
  <2> SUFFICES ASSUME NoStrandedTask, NEW t \in Waiting(tasks'), tasks'[t].dependsOn # 0
               PROVE  /\ tasks'[t].dependsOn \in DOMAIN tasks'
                      /\ tasks'[tasks'[t].dependsOn] = tasks[tasks[t].dependsOn]
                      /\ t \in Waiting(tasks) /\ tasks'[t] = tasks[t]
    BY DEF NoStrandedTask
  <2>1. t \in DOMAIN tasks' /\ t \in DOMAIN tasks /\ tasks'[t] = tasks[t] /\ tasks[t].status \in {"pending", "failed"}
    BY <1>1 DEF Waiting
  <2>2. t \in Waiting(tasks)
    BY <2>1 DEF Waiting
  <2>3. tasks[t].dependsOn \in DOMAIN tasks \ S
    BY <1>2, <2>1, <2>2 DEF NoStrandedTask, Over
  <2> QED BY <1>1, <2>1, <2>2, <2>3
<1> QED BY <1>1, <1>3, <1>4 DEF RInv, RepairedOnStart
\* One row written, by a step that leaves the Gateway as it is.
LEMMA WriteKept ==
  ASSUME RInv, TypeOK', gateway' = gateway, nextTask' = nextTask,
         NEW t \in DOMAIN tasks, NEW row \in TaskRow, SameNeeds(row, tasks[t]),
         tasks[t].status = "done" => row.status = "done",
         row.status = "running" => tasks[t].status = "running" \/ DependencyDone(t),
         row.status \in {"pending", "failed"} =>
            \/ tasks[t].status \in {"pending", "failed", "running"}
            \/ Viable(tasks, tasks[t].dependsOn, tasks[t].cwd),
         \/ /\ tasks' = Cascade([tasks EXCEPT ![t] = row], t)
            /\ row.status \in {"dead_letter", "cancelled"} \/ Recoverable(row)
         \/ /\ tasks' = [tasks EXCEPT ![t] = row]
            /\ Recoverable(row) \/ ~Recoverable(tasks[t])
  PROVE  RInv'
<1>1. Keeps /\ Provides
  BY WriteProvides DEF RInv, TypeOK
<1>2. DOMAIN tasks' = DOMAIN tasks
  BY DEF Cascade, Bury
<1> QED BY <1>1, <1>2, KeptRows DEF RInv

LEMMA SameKept ==
  ASSUME RInv, TypeOK', tasks' = tasks, nextTask' = nextTask,
         gateway' \in {"up", "stopping"} => gateway \in {"up", "stopping"}
  PROVE  RInv'
<1>1. Keeps /\ Provides
  BY SameProvides
<1> QED BY <1>1, KeptRows DEF RInv

\* The rows a task that was executing goes on with, or ends as.
LEMMA LiveOutcome ==
  ASSUME NEW row \in TaskRow, NEW new,
         new = Ended(row, "done") \/ new = Pending(row) \/ new = [Pending(row) EXCEPT !.wait = FALSE]
  PROVE  new \in TaskRow /\ SameNeeds(new, row) /\ new.status \in {"pending", "done"} /\ Recoverable(new)
<1>1. CASE new = Ended(row, "done")
  <2>1. new.status = "done" /\ SameTask(new, row) /\ new \in TaskRow
    BY <1>1, RowFields, RowTypes DEF TaskStatus
  <2> QED BY <2>1 DEF SameTask, SameNeeds, Recoverable
<1>2. CASE new = Pending(row) \/ new = [Pending(row) EXCEPT !.wait = FALSE]
  <2>1. new \in TaskRow
    BY <1>2, RowTypes
  <2>2. new.status = "pending" /\ new.dependsOn = row.dependsOn /\ new.cwd = row.cwd
    BY <1>2 DEF Pending, TaskRow
  <2> QED BY <2>1, <2>2 DEF Recoverable, SameNeeds
<1> QED BY <1>1, <1>2

LEMMA FailedOutcome ==
  ASSUME NEW row \in TaskRow, NEW deadLetter, NEW new,
         new = FailedRow(row, deadLetter) \/ new = RecoveredRow(row)
  PROVE  /\ new \in TaskRow /\ SameNeeds(new, row) /\ new.status # "running"
         /\ new.status \in {"dead_letter", "cancelled"} \/ Recoverable(new)
<1>1. new \in TaskRow
  BY RowTypes
<1>2. SameTask(new, row)
  BY RowFields
<1>3. \/ new.status = "dead_letter"
      \/ new.status = "pending"
      \/ new.status = "failed" /\ new.retryCount <= new.maxRetries
  <2>1. CASE new = FailedRow(row, deadLetter)
    BY <2>1, RowFields
  <2>2. CASE new = RecoveredRow(row)
    BY <2>2, RowFields
  <2> QED BY <2>1, <2>2
<1> QED BY <1>1, <1>2, <1>3 DEF SameTask, SameNeeds, Recoverable

\* However an execution ends.
LEMMA OutcomeKept ==
  ASSUME RInv, TypeOK', gateway' = gateway, nextTask' = nextTask, NEW t, NEW deadLetter,
         \/ tasks' = tasks
         \/ /\ RunningTask(t)
            /\ \/ tasks' = [tasks EXCEPT ![t] = Ended(tasks[t], "done")]
               \/ tasks' = [tasks EXCEPT ![t] = [Pending(tasks[t]) EXCEPT !.wait = FALSE]]
               \/ tasks' = Cascade([tasks EXCEPT ![t] = FailedRow(tasks[t], deadLetter)], t)
               \/ tasks' = Cascade([tasks EXCEPT ![t] = RecoveredRow(tasks[t])], t)
  PROVE  RInv'
<1>1. CASE tasks' = tasks
  BY <1>1, SameKept
<1>2. ASSUME RunningTask(t), NEW row,
             \/ /\ row = Ended(tasks[t], "done") \/ row = [Pending(tasks[t]) EXCEPT !.wait = FALSE]
                /\ tasks' = [tasks EXCEPT ![t] = row]
             \/ /\ row = FailedRow(tasks[t], deadLetter) \/ row = RecoveredRow(tasks[t])
                /\ tasks' = Cascade([tasks EXCEPT ![t] = row], t)
      PROVE  RInv'
  <2>1. t \in DOMAIN tasks /\ tasks[t].status = "running" /\ tasks[t] \in TaskRow
    BY <1>2 DEF RunningTask, RInv, TypeOK, StoreTypeOK
  <2>2. /\ row \in TaskRow /\ SameNeeds(row, tasks[t]) /\ row.status # "running"
        /\ \/ tasks' = [tasks EXCEPT ![t] = row] /\ Recoverable(row)
           \/ /\ tasks' = Cascade([tasks EXCEPT ![t] = row], t)
              /\ row.status \in {"dead_letter", "cancelled"} \/ Recoverable(row)
    <3>1. CASE /\ row = Ended(tasks[t], "done") \/ row = [Pending(tasks[t]) EXCEPT !.wait = FALSE]
               /\ tasks' = [tasks EXCEPT ![t] = row]
      <4>1. row \in TaskRow /\ SameNeeds(row, tasks[t]) /\ row.status \in {"pending", "done"} /\ Recoverable(row)
        BY <2>1, <3>1, LiveOutcome
      <4> QED BY <3>1, <4>1
    <3>2. CASE /\ row = FailedRow(tasks[t], deadLetter) \/ row = RecoveredRow(tasks[t])
               /\ tasks' = Cascade([tasks EXCEPT ![t] = row], t)
      <4>1. /\ row \in TaskRow /\ SameNeeds(row, tasks[t]) /\ row.status # "running"
            /\ row.status \in {"dead_letter", "cancelled"} \/ Recoverable(row)
        BY <2>1, <3>2, FailedOutcome
      <4> QED BY <3>2, <4>1
    <3> QED BY <1>2, <3>1, <3>2
  <2> QED BY <2>1, <2>2, WriteKept
<1> QED BY <1>1, <1>2
-----------------------------------------------------------------------------

LEMMA AddKept ==
  ASSUME RInv, TypeOK', gateway' = gateway,
         NEW dep, NEW b, NEW c, NEW p, NEW m, Add(dep, b, c, p, m)
  PROVE  RInv'
<1>1. /\ nextTask \notin DOMAIN tasks
      /\ DOMAIN tasks' = DOMAIN tasks \cup {nextTask}
      /\ tasks'[nextTask].status = "pending"
      /\ tasks'[nextTask].dependsOn = dep /\ tasks'[nextTask].cwd = c
      /\ \A t \in DOMAIN tasks : tasks'[t] = tasks[t]
      /\ nextTask' = nextTask + 1
      /\ Viable(tasks, dep, c)
  BY DEF Add, RInv, TypeOK, StoreTypeOK, TaskId
<1>2. Keeps
  BY <1>1 DEF Keeps, SameNeeds
<1>3. Provides
  BY <1>1 DEF Provides, Waiting
<1>4. \A t \in DOMAIN tasks' : t < nextTask'
  <2>1. nextTask \in Nat /\ \A t \in DOMAIN tasks : t \in Nat /\ t < nextTask
    BY DEF RInv, TypeOK, StoreTypeOK, TaskId
  <2> QED BY <1>1, <2>1
<1> QED BY <1>2, <1>3, <1>4, KeptRows

LEMMA UpdateKept ==
  ASSUME RInv, TypeOK', gateway' = gateway,
         NEW t, NEW b \in Batches \cup {NoBatch}, NEW p \in Prios, NEW m \in RetryLimits, Update(t, b, p, m)
  PROVE  RInv'
<1> DEFINE ex == Exhausted(t, m)
           row == EditedRow(tasks[t], b, p, m, ex)
<1>1. /\ t \in DOMAIN tasks /\ tasks[t] \in TaskRow /\ nextTask' = nextTask
      /\ tasks[t].status \in {"pending", "failed", "dead_letter"}
  BY DEF Update, RInv, TypeOK, StoreTypeOK
<1>2. ex \in BOOLEAN
  BY DEF Exhausted
<1>3. tasks' = IF ex THEN Cascade([tasks EXCEPT ![t] = row], t) ELSE [tasks EXCEPT ![t] = row]
  BY DEF Update
<1>4. ~ex /\ tasks[t].status # "dead_letter" => tasks[t].retryCount <= m
  BY <1>1, StoreConstants DEF Exhausted, Waiting, TaskRow
<1> HIDE DEF ex
<1>5. /\ row \in TaskRow
      /\ row.status = (IF ex THEN "dead_letter" ELSE tasks[t].status)
      /\ row.dependsOn = tasks[t].dependsOn /\ row.cwd = tasks[t].cwd
      /\ row.retryCount = tasks[t].retryCount /\ row.maxRetries = m
  BY <1>1, <1>2, EditedRowType, OtherRowFields
<1> HIDE DEF row
<1>6. SameNeeds(row, tasks[t]) /\ row.status # "running"
  BY <1>1, <1>5 DEF SameNeeds
<1>7. row.status \in {"pending", "failed"} => tasks[t].status \in {"pending", "failed"}
  BY <1>5
<1>8. ~ex => Recoverable(row) \/ ~Recoverable(tasks[t])
  BY <1>1, <1>4, <1>5 DEF Recoverable
<1> QED BY <1>1, <1>3, <1>5, <1>6, <1>7, <1>8, WriteKept

LEMMA RetryBatchKept ==
  ASSUME RInv, TypeOK', gateway' = gateway, NEW b, RetryBatch(b)
  PROVE  RInv'
<1> DEFINE R == Retryable(b)
<1>1. /\ DOMAIN tasks' = DOMAIN tasks /\ nextTask' = nextTask
      /\ \A t \in DOMAIN tasks : tasks'[t] = IF t \in R THEN Requeued(tasks[t]) ELSE tasks[t]
      /\ \A t \in R : t \in DOMAIN tasks /\ tasks[t].status \in {"failed", "dead_letter"}
  BY DEF RetryBatch, Retryable
<1>2. \A t \in R : tasks'[t].status = "pending" /\ SameNeeds(tasks'[t], tasks[t])
  <2> TAKE t \in R
  <2>1. tasks[t] \in TaskRow /\ tasks'[t] = Requeued(tasks[t])
    BY <1>1 DEF RInv, TypeOK, StoreTypeOK
  <2> QED BY <2>1, RowFields DEF SameTask, SameNeeds
<1>3. \A t \in DOMAIN tasks \ R : tasks'[t] = tasks[t]
  BY <1>1
<1>4. ASSUME NEW t \in R
      PROVE  \/ Viable(tasks, tasks[t].dependsOn, tasks[t].cwd)
             \/ /\ tasks[t].dependsOn \in R
                /\ tasks[tasks[t].dependsOn].cwd = tasks[t].cwd
  BY RetryableSound DEF Viable
<1> HIDE DEF R
<1>5. Keeps
  BY <1>1, <1>2, <1>3 DEF Keeps, SameNeeds
<1>6. \A u \in DOMAIN tasks : Recoverable(tasks[u]) => Recoverable(tasks'[u])
  BY <1>2, <1>3 DEF Recoverable
<1>7. ASSUME NEW t \in Waiting(tasks')
      PROVE  \/ t \in Waiting(tasks)
             \/ Viable(tasks, tasks'[t].dependsOn, tasks'[t].cwd)
             \/ Viable(tasks', tasks'[t].dependsOn, tasks'[t].cwd)
  <2>1. CASE t \notin R
    BY <1>1, <1>3, <2>1 DEF Waiting
  <2>2. CASE t \in R
    <3>1. SameNeeds(tasks'[t], tasks[t])
      BY <1>2, <2>2
    <3>2. CASE Viable(tasks, tasks[t].dependsOn, tasks[t].cwd)
      BY <3>1, <3>2 DEF SameNeeds
    <3>3. CASE tasks[t].dependsOn \in R /\ tasks[tasks[t].dependsOn].cwd = tasks[t].cwd
      BY <1>1, <1>2, <3>1, <3>3 DEF SameNeeds, Viable, Recoverable
    <3> QED BY <1>4, <2>2, <3>2, <3>3
  <2> QED BY <2>1, <2>2
<1> QED BY <1>1, <1>5, <1>6, <1>7, KeptRows DEF Provides, RInv

LEMMA ClientKept ==
  ASSUME RInv, TypeOK', gateway' = gateway, Client
  PROVE  RInv'
<1>1. \A t \in DOMAIN tasks : tasks[t] \in TaskRow
  BY DEF RInv, TypeOK, StoreTypeOK
<1>2. CASE ClientAdd
  BY <1>2, AddKept DEF ClientAdd
<1>3. CASE ClientUpdate
  BY <1>3, UpdateKept DEF ClientUpdate
<1>4. ASSUME NEW t, Cancel(t) PROVE RInv'
  <2> DEFINE row == Ended(tasks[t], "cancelled")
  <2>1. t \in DOMAIN tasks /\ tasks[t] \in TaskRow /\ tasks[t].status # "done" /\ nextTask' = nextTask
    BY <1>1, <1>4 DEF Cancel
  <2>2. row \in TaskRow /\ row.status = "cancelled" /\ SameTask(row, tasks[t])
    BY <2>1, RowTypes, RowFields DEF TaskStatus
  <2>3. tasks' = Cascade([tasks EXCEPT ![t] = row], t)
    BY <1>4 DEF Cancel
  <2> HIDE DEF row
  <2>4. SameNeeds(row, tasks[t])
    BY <2>2 DEF SameTask, SameNeeds
  <2> QED BY <2>1, <2>2, <2>3, <2>4, WriteKept
<1>5. ASSUME NEW t, Retry(t) PROVE RInv'
  <2> DEFINE row == Requeued(tasks[t])
  <2>1. /\ t \in DOMAIN tasks /\ tasks[t].status # "done" /\ nextTask' = nextTask
        /\ Viable(tasks, tasks[t].dependsOn, tasks[t].cwd)
    BY <1>5 DEF Retry
  <2>2. row \in TaskRow /\ row.status = "pending" /\ SameNeeds(row, tasks[t])
    BY <1>1, <2>1, RowTypes, RowFields DEF SameTask, SameNeeds
  <2>3. tasks' = [tasks EXCEPT ![t] = row]
    BY <1>5 DEF Retry
  <2> HIDE DEF row
  <2>4. Recoverable(row)
    BY <2>2 DEF Recoverable
  <2> QED BY <2>1, <2>2, <2>3, <2>4, WriteKept
<1>6. CASE ClientRetryBatch
  BY <1>6, RetryBatchKept DEF ClientRetryBatch
<1>7. ASSUME NEW t, Delete(t) PROVE RInv'
  <2>1. Remove({t}) /\ \A u \in DOMAIN tasks \ {t} : tasks[u].dependsOn \in {t} => tasks[u].status \in Over
    BY <1>7 DEF Delete, Dependents, Over
  <2> QED BY <2>1, RemovedRows
<1>8. CASE ClientAbandon
  BY <1>8, SameKept DEF ClientAbandon, CloseRun
<1> QED BY <1>2, <1>3, <1>4, <1>5, <1>6, <1>7, <1>8 DEF Client, ClientCancel, ClientRetry, ClientDelete

LEMMA ResetKept ==
  ASSUME RInv, TypeOK', NEW S, ResetToPending(S),
         gateway' \in {"up", "stopping"} => gateway \in {"up", "stopping"}
  PROVE  RInv'
<1>1. \A t \in DOMAIN tasks : tasks[t] \in TaskRow
  BY DEF RInv, TypeOK, StoreTypeOK
<1>2. /\ DOMAIN tasks' = DOMAIN tasks /\ nextTask' = nextTask
      /\ \A t \in DOMAIN tasks : tasks'[t] = IF t \in S /\ RunningTask(t) THEN Pending(tasks[t]) ELSE tasks[t]
  BY DEF ResetToPending
<1>3. \A t \in DOMAIN tasks :
         \/ tasks'[t] = tasks[t]
         \/ /\ RunningTask(t) /\ SameNeeds(tasks'[t], tasks[t])
            /\ tasks'[t].status \in {"pending", "done"} /\ Recoverable(tasks'[t])
  BY <1>1, <1>2, LiveOutcome
<1>4. Keeps
  BY <1>2, <1>3 DEF Keeps, SameNeeds, RunningTask
<1>5. Provides
  BY <1>2, <1>3 DEF Provides, Waiting
<1> QED BY <1>2, <1>4, <1>5, KeptRows DEF RInv

\* What the start does for the tasks an older release left.
LEMMA ResolveMends ==
  ASSUME StoreTypeOK, StoreTypeOK', ResolveBlocked
  PROVE  Keeps /\ NoStrandedTask' /\ DOMAIN tasks' = DOMAIN tasks
<1> DEFINE seeds == {t \in Waiting(tasks) : ~Viable(tasks, tasks[t].dependsOn, tasks[t].cwd)}
           S == seeds \cup Downstream(tasks, seeds)
<1>1. tasks' = Bury(tasks, S) /\ tasks \in [DOMAIN tasks -> TaskRow]
  BY DEF ResolveBlocked, StoreTypeOK
<1>2. S \in SUBSET Waiting(tasks)
  BY DEF Downstream
<1>3. \A t \in Waiting(tasks) : tasks[t].dependsOn \in S => t \in S
  BY DownstreamClosed
<1>4. \A t \in Waiting(tasks) \ S : Viable(tasks, tasks[t].dependsOn, tasks[t].cwd)
  OBVIOUS
<1> HIDE DEF S
<1>5. Spared(tasks', tasks, S, S)
  BY ONLY <1>1, <1>2, <1>3, BuryProvides
<1>6. Keeps
  BY <1>5 DEF Spared, Keeps
<1>7. ASSUME NEW t \in Waiting(tasks'), tasks'[t].dependsOn # 0
      PROVE  /\ tasks'[t].dependsOn \in DOMAIN tasks'
             /\ tasks'[tasks'[t].dependsOn].cwd = tasks'[t].cwd
             /\ Recoverable(tasks'[tasks'[t].dependsOn])
  <2> DEFINE u == tasks[t].dependsOn
  <2>1. t \in Waiting(tasks) \ S /\ u \notin S /\ SameNeeds(tasks'[t], tasks[t])
    BY <1>5 DEF Spared, Waiting
  <2>2. u \in DOMAIN tasks /\ tasks[u].cwd = tasks[t].cwd /\ Recoverable(tasks[u])
    BY <1>4, <1>7, <2>1 DEF Viable, SameNeeds
  <2>3. tasks'[u] = tasks[u] /\ u \in DOMAIN tasks'
    BY <1>5, <2>1, <2>2 DEF Spared
  <2> QED BY <2>1, <2>2, <2>3 DEF SameNeeds
<1>8. NoStrandedTask'
  BY <1>7 DEF NoStrandedTask, Recoverable
<1> QED BY <1>5, <1>6, <1>8 DEF Spared

LEMMA RInvNext ==
  ASSUME RInv, [Next]_vars
  PROVE  RInv'
<1> USE DEF storeVars
<1>1. TypeOK'
  BY TypeNext DEF RInv
<1>2. \A t \in DOMAIN tasks : tasks[t] \in TaskRow
  BY DEF RInv, TypeOK, StoreTypeOK
<1>3. CASE Client
  BY <1>1, <1>3, ClientKept DEF Client, queueVars
<1>4. CASE GatewayStart \/ Poll \/ HandBack
  BY <1>1, <1>4, ResetKept DEF GatewayStart, Poll, HandBack, ResetOrphans
<1>5. CASE GatewayReady
  <2>1. Keeps /\ NoStrandedTask' /\ DOMAIN tasks' = DOMAIN tasks /\ nextTask' = nextTask
    BY <1>1, <1>5, ResolveMends DEF GatewayReady, ResolveBlocked, RInv, TypeOK
  <2>2. DependencyFirst'
    BY <2>1, KeepsOrder DEF RInv
  <2> QED BY <1>1, <2>1, <2>2 DEF RInv, RepairedOnStart
<1>6. CASE Dispatch
  <2>1. PICK t \in TaskId, excluded \in SUBSET Batches : ClaimNext(t, excluded)
    BY <1>6 DEF Dispatch
  <2> DEFINE row == [tasks[t] EXCEPT !.status = "running", !.finished = FALSE]
  <2>2. /\ t \in DOMAIN tasks /\ tasks[t].status \in {"pending", "failed"} /\ DependencyDone(t)
        /\ tasks' = [tasks EXCEPT ![t] = row] /\ nextTask' = nextTask /\ gateway' = gateway
    BY <1>6, <2>1 DEF Dispatch, ClaimNext, Runnable, Waiting
  <2>3. row \in TaskRow /\ row.status = "running" /\ SameNeeds(row, tasks[t])
    BY <1>2, <2>2, RowTypes DEF TaskRow, SameNeeds
  <2> HIDE DEF row
  <2>4. Recoverable(row)
    BY <2>3 DEF Recoverable
  <2> QED BY <1>1, <2>2, <2>3, <2>4, WriteKept
<1>7. CASE StartFails
  <2>1. CASE Fail(claim)
    BY <1>1, <1>7, <2>1, OutcomeKept DEF StartFails, Fail
  <2> QED BY <1>1, <1>7, <2>1, SameKept DEF StartFails
<1>8. ASSUME NEW r, Settle(r) \/ InterruptRun(r) \/ CloseRun(r), gateway' = gateway
      PROVE  RInv'
  <2> DEFINE t == runs[r].task
  <2>1. CASE CompleteRun(r)
    BY <1>1, <1>8, <2>1, OutcomeKept DEF CompleteRun
  <2>2. ASSUME NEW deadLetter, FailRun(r, deadLetter) PROVE RInv'
    <3>1. /\ tasks' = Cascade([tasks EXCEPT ![t] = FailedRow(tasks[t], deadLetter)], t)
          /\ RunningTask(t) /\ nextTask' = nextTask
      BY <2>2 DEF FailRun
    <3> HIDE DEF t
    <3> QED BY <1>1, <1>8, <3>1, OutcomeKept
  <2>3. CASE RecoverRun(r)
    <3>1. /\ nextTask' = nextTask
          /\ \/ tasks' = tasks
             \/ RunningTask(t) /\ tasks' = Cascade([tasks EXCEPT ![t] = RecoveredRow(tasks[t])], t)
      BY <2>3 DEF RecoverRun
    <3> HIDE DEF t
    <3> QED BY <1>1, <1>8, <3>1, OutcomeKept
  <2>4. CASE InterruptRun(r)
    <3>1. /\ nextTask' = nextTask
          /\ \/ tasks' = tasks
             \/ RunningTask(t) /\ tasks' = [tasks EXCEPT ![t] = [Pending(tasks[t]) EXCEPT !.wait = FALSE]]
      BY <2>4 DEF InterruptRun
    <3> HIDE DEF t
    <3> QED BY <1>1, <1>8, <3>1, OutcomeKept
  <2>5. CASE CloseRun(r)
    BY <1>1, <1>8, <2>5, SameKept DEF CloseRun
  <2> QED BY <1>8, <2>1, <2>2, <2>3, <2>4, <2>5 DEF Settle
<1>9. CASE Execution \/ Shutdown
  BY <1>8, <1>9 DEF Execution, Shutdown, queueVars
<1>10. CASE Retention
  <2>1. PICK page \in SUBSET DOMAIN tasks : Cleanup(page)
    BY <1>10 DEF Retention
  <2>2. \A u \in DOMAIN tasks \ Purgeable(page) : tasks[u].dependsOn \notin Purgeable(page)
    BY PurgeableClosed
  <2>3. gateway' = gateway /\ Remove(Purgeable(page))
    BY <1>10, <2>1 DEF Retention, Cleanup, queueVars
  <2> QED BY <1>1, <2>2, <2>3, RemovedRows
<1>11. CASE Backoff
  <2>1. PICK t : BackoffElapses(t)
    BY <1>11 DEF Backoff
  <2> DEFINE row == [tasks[t] EXCEPT !.wait = FALSE]
  <2>2. /\ t \in DOMAIN tasks /\ tasks' = [tasks EXCEPT ![t] = row]
        /\ nextTask' = nextTask /\ gateway' = gateway
    BY <1>11, <2>1 DEF Backoff, BackoffElapses, queueVars
  <2>3. /\ row \in TaskRow /\ row.status = tasks[t].status /\ SameNeeds(row, tasks[t])
        /\ row.retryCount = tasks[t].retryCount /\ row.maxRetries = tasks[t].maxRetries
    BY <1>2, <2>2, RowTypes DEF TaskRow, SameNeeds
  <2> HIDE DEF row
  <2>4. Recoverable(row) \/ ~Recoverable(tasks[t])
    BY <2>3 DEF Recoverable
  <2> QED BY <1>1, <2>2, <2>3, <2>4, WriteKept
<1>12. CASE GatewayStop \/ GatewayExit \/ Look \/ NoDispatch \/ StartRun \/ UNCHANGED vars
  BY <1>1, <1>12, SameKept DEF GatewayStop, GatewayExit, Look, NoDispatch, StartRun, CreateRun, vars
<1> QED BY <1>3, <1>4, <1>5, <1>6, <1>7, <1>9, <1>10, <1>11, <1>12 DEF Next

LEMMA RInvInit == StoredDatabase => RInv
BY DEF StoredDatabase, RInv, RepairedOnStart

\* Whatever an older release left of dependencies, budgets, open runs and
\* statuses, once a Gateway has started no waiting task is stranded, and
\* none is again: what resolveBlockedTasks does at the start, and every
\* transaction after it.
THEOREM Repaired == StoredSpec => []RepairedOnStart
<1>1. RInv => RepairedOnStart BY DEF RInv
<1> QED BY <1>1, RInvInit, RInvNext, PTL DEF StoredSpec

\* There too a task executes only after what it depends on, before the
\* first start and after it.
THEOREM StoredInOrder == StoredSpec => []DependencyFirst
<1>1. RInv => DependencyFirst BY DEF RInv
<1> QED BY <1>1, RInvInit, RInvNext, PTL DEF StoredSpec
=============================================================================
