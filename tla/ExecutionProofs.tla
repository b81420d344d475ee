--------------------------- MODULE ExecutionProofs ---------------------------
(* Theorems about Execution, for every value of its constants.             *)
EXTENDS Execution, FiniteSetTheorems, FunctionTheorems, TLAPS

\* The theorems about the queue, read in the states of Execution.
QP == INSTANCE QueueHistoryProofs WITH phase <- QueuePhase

\* The transactions of the store are the same through the instance.
LEMMA SameStore ==
  /\ \A dep, b, c, p, m : QP!Add(dep, b, c, p, m) <=> Add(dep, b, c, p, m)
  /\ \A t, b, p, m : QP!Update(t, b, p, m) <=> Update(t, b, p, m)
  /\ \A t : QP!Cancel(t) <=> Cancel(t)
  /\ \A t : QP!Retry(t) <=> Retry(t)
  /\ \A b : QP!RetryBatch(b) <=> RetryBatch(b)
  /\ \A t : QP!Delete(t) <=> Delete(t)
  /\ \A page : QP!Cleanup(page) <=> Cleanup(page)
  /\ \A t, excluded : QP!ClaimNext(t, excluded) <=> ClaimNext(t, excluded)
  /\ \A t : QP!CreateRun(t) <=> CreateRun(t)
  /\ \A r : QP!CompleteRun(r) <=> CompleteRun(r)
  /\ \A r, deadLetter : QP!FailRun(r, deadLetter) <=> FailRun(r, deadLetter)
  /\ \A t : QP!Fail(t) <=> Fail(t)
  /\ \A r : QP!RecoverRun(r) <=> RecoverRun(r)
  /\ \A r : QP!InterruptRun(r) <=> InterruptRun(r)
  /\ \A r : QP!CloseRun(r) <=> CloseRun(r)
  /\ \A S : QP!ResetToPending(S) <=> ResetToPending(S)
  /\ \A t : QP!BackoffElapses(t) <=> BackoffElapses(t)
  /\ QP!ResolveBlocked <=> ResolveBlocked
  /\ QP!Orphans = Orphans /\ QP!CountRunning = CountRunning /\ QP!TaskId = TaskId /\ QP!RunId = RunId
  /\ \A r : QP!OpenRun(r) <=> OpenRun(r)
  /\ \A t : QP!RunningTask(t) <=> RunningTask(t)
<1>1. \A dep, b, c, p, m : QP!Add(dep, b, c, p, m) <=> Add(dep, b, c, p, m)
  BY DEF QP!Add, QP!Viable, QP!Recoverable, Add, Viable, Recoverable
<1>2. \A t, b, p, m : QP!Update(t, b, p, m) <=> Update(t, b, p, m)
  BY DEF QP!Update, QP!Exhausted, QP!EditedRow, QP!Cascade, QP!Bury, QP!Ended, QP!Downstream,
      QP!Waiting, Update, Exhausted, EditedRow, Cascade, Bury, Ended, Downstream, Waiting
<1>3. \A t : QP!Cancel(t) <=> Cancel(t)
  BY DEF QP!Cancel, QP!Cascade, QP!Bury, QP!Ended, QP!Downstream, QP!Waiting, Cancel, Cascade,
      Bury, Ended, Downstream, Waiting
<1>4. \A t : QP!Retry(t) <=> Retry(t)
  BY DEF QP!Retry, QP!Viable, QP!Recoverable, QP!Requeued, QP!Pending, Retry, Viable, Recoverable,
      Requeued, Pending
<1>5. \A b : QP!RetryBatch(b) <=> RetryBatch(b)
  BY DEF QP!RetryBatch, QP!Retryable, QP!Viable, QP!Recoverable, QP!Requeued, QP!Pending,
      RetryBatch, Retryable, Viable, Recoverable, Requeued, Pending
<1>6. \A t : QP!Delete(t) <=> Delete(t)
  BY DEF QP!Delete, QP!Active, QP!OpenRuns, QP!Dependents, QP!Remove, Delete, Active, OpenRuns,
      Dependents, Remove
<1>7. \A page : QP!Cleanup(page) <=> Cleanup(page)
  BY DEF QP!Cleanup, QP!Purgeable, QP!Dependents, QP!OpenRuns, QP!Remove, Cleanup, Purgeable,
      Dependents, OpenRuns, Remove
<1>8. \A t, excluded : QP!ClaimNext(t, excluded) <=> ClaimNext(t, excluded)
  BY DEF QP!ClaimNext, QP!Runnable, QP!Waiting, QP!DependencyDone, QP!ActiveTasks, QP!Active,
      QP!OpenRuns, QP!Before, ClaimNext, Runnable, Waiting, DependencyDone, ActiveTasks, Active,
      OpenRuns, Before
<1>9. \A t : QP!CreateRun(t) <=> CreateRun(t)
  BY DEF QP!CreateRun, CreateRun
<1>10. \A r : QP!CompleteRun(r) <=> CompleteRun(r)
  BY DEF QP!CompleteRun, QP!OpenRun, QP!RunningTask, QP!Ended, QP!Close, CompleteRun, OpenRun,
      RunningTask, Ended, Close
<1>11. \A r, deadLetter : QP!FailRun(r, deadLetter) <=> FailRun(r, deadLetter)
  BY DEF QP!FailRun, QP!OpenRun, QP!RunningTask, QP!FailedRow, QP!Counted, QP!Close, QP!Cascade,
      QP!Bury, QP!Ended, QP!Downstream, QP!Waiting, FailRun, OpenRun, RunningTask, FailedRow,
      Counted, Close, Cascade, Bury, Ended, Downstream, Waiting
<1>12. \A t : QP!Fail(t) <=> Fail(t)
  BY DEF QP!Fail, QP!RunningTask, QP!FailedRow, QP!Counted, QP!Cascade, QP!Bury, QP!Ended,
      QP!Downstream, QP!Waiting, Fail, RunningTask, FailedRow, Counted, Cascade, Bury, Ended,
      Downstream, Waiting
<1>13. \A r : QP!RecoverRun(r) <=> RecoverRun(r)
  BY DEF QP!RecoverRun, QP!OpenRun, QP!RunningTask, QP!RecoveredRow, QP!Counted, QP!Pending,
      QP!Close, QP!Cascade, QP!Bury, QP!Ended, QP!Downstream, QP!Waiting, RecoverRun, OpenRun,
      RunningTask, RecoveredRow, Counted, Pending, Close, Cascade, Bury, Ended, Downstream,
      Waiting
<1>14. \A r : QP!InterruptRun(r) <=> InterruptRun(r)
  BY DEF QP!InterruptRun, QP!OpenRun, QP!RunningTask, QP!Pending, QP!Close, InterruptRun, OpenRun,
      RunningTask, Pending, Close
<1>15. \A r : QP!CloseRun(r) <=> CloseRun(r)
  BY DEF QP!CloseRun, QP!OpenRun, QP!Close, CloseRun, OpenRun, Close
<1>16. \A S : QP!ResetToPending(S) <=> ResetToPending(S)
  BY DEF QP!ResetToPending, QP!RunningTask, QP!Pending, ResetToPending, RunningTask, Pending
<1>17. \A t : QP!BackoffElapses(t) <=> BackoffElapses(t)
  BY DEF QP!BackoffElapses, BackoffElapses
<1>18. QP!ResolveBlocked <=> ResolveBlocked
  BY DEF QP!ResolveBlocked, QP!Waiting, QP!Viable, QP!Recoverable, QP!Bury, QP!Ended,
      QP!Downstream, ResolveBlocked, Waiting, Viable, Recoverable, Bury, Ended, Downstream
<1>19. QP!Orphans = Orphans /\ QP!CountRunning = CountRunning /\ QP!TaskId = TaskId /\ QP!RunId = RunId
  <2>1. QP!Orphans = Orphans /\ QP!ActiveTasks = ActiveTasks
    BY DEF QP!Orphans, QP!OpenRuns, QP!ActiveTasks, QP!Active, Orphans, OpenRuns, ActiveTasks, Active
  <2>2. \A S : QP!Cardinality(S) = Cardinality(S)
    BY DEF QP!Cardinality, Cardinality
  <2> QED BY <2>1, <2>2 DEF QP!CountRunning, QP!TaskId, QP!RunId, CountRunning, TaskId, RunId
<1>20. \A r : QP!OpenRun(r) <=> OpenRun(r)
  BY DEF QP!OpenRun, OpenRun
<1>21. \A t : QP!RunningTask(t) <=> RunningTask(t)
  BY DEF QP!RunningTask, RunningTask
<1> QED BY <1>1, <1>2, <1>3, <1>4, <1>5, <1>6, <1>7, <1>8, <1>9, <1>10, <1>11, <1>12, <1>13, <1>14, <1>15, <1>16, <1>17, <1>18, <1>19, <1>20, <1>21

\* So they are through the instance that Refines uses.
LEMMA SameQueueStore ==
  /\ \A dep, b, c, p, m : QP!Add(dep, b, c, p, m) <=> Queue!Add(dep, b, c, p, m)
  /\ \A t, b, p, m : QP!Update(t, b, p, m) <=> Queue!Update(t, b, p, m)
  /\ \A t : QP!Cancel(t) <=> Queue!Cancel(t)
  /\ \A t : QP!Retry(t) <=> Queue!Retry(t)
  /\ \A b : QP!RetryBatch(b) <=> Queue!RetryBatch(b)
  /\ \A t : QP!Delete(t) <=> Queue!Delete(t)
  /\ \A page : QP!Cleanup(page) <=> Queue!Cleanup(page)
  /\ \A t, excluded : QP!ClaimNext(t, excluded) <=> Queue!ClaimNext(t, excluded)
  /\ \A t : QP!CreateRun(t) <=> Queue!CreateRun(t)
  /\ \A r : QP!CompleteRun(r) <=> Queue!CompleteRun(r)
  /\ \A r, deadLetter : QP!FailRun(r, deadLetter) <=> Queue!FailRun(r, deadLetter)
  /\ \A t : QP!Fail(t) <=> Queue!Fail(t)
  /\ \A r : QP!RecoverRun(r) <=> Queue!RecoverRun(r)
  /\ \A r : QP!InterruptRun(r) <=> Queue!InterruptRun(r)
  /\ \A r : QP!CloseRun(r) <=> Queue!CloseRun(r)
  /\ \A S : QP!ResetToPending(S) <=> Queue!ResetToPending(S)
  /\ \A t : QP!BackoffElapses(t) <=> Queue!BackoffElapses(t)
  /\ QP!ResolveBlocked <=> Queue!ResolveBlocked
  /\ QP!Orphans = Queue!Orphans /\ QP!CountRunning = Queue!CountRunning /\ QP!TaskId = Queue!TaskId /\ QP!RunId = Queue!RunId
  /\ \A r : QP!OpenRun(r) <=> Queue!OpenRun(r)
  /\ \A t : QP!RunningTask(t) <=> Queue!RunningTask(t)
<1>1. \A dep, b, c, p, m : QP!Add(dep, b, c, p, m) <=> Queue!Add(dep, b, c, p, m)
  BY DEF QP!Add, QP!Viable, QP!Recoverable, Queue!Add, Queue!Viable, Queue!Recoverable
<1>2. \A t, b, p, m : QP!Update(t, b, p, m) <=> Queue!Update(t, b, p, m)
  BY DEF QP!Update, QP!Exhausted, QP!EditedRow, QP!Cascade, QP!Bury, QP!Ended, QP!Downstream,
      QP!Waiting, Queue!Update, Queue!Exhausted, Queue!EditedRow, Queue!Cascade, Queue!Bury, Queue!Ended, Queue!Downstream, Queue!Waiting
<1>3. \A t : QP!Cancel(t) <=> Queue!Cancel(t)
  BY DEF QP!Cancel, QP!Cascade, QP!Bury, QP!Ended, QP!Downstream, QP!Waiting, Queue!Cancel, Queue!Cascade,
      Queue!Bury, Queue!Ended, Queue!Downstream, Queue!Waiting
<1>4. \A t : QP!Retry(t) <=> Queue!Retry(t)
  BY DEF QP!Retry, QP!Viable, QP!Recoverable, QP!Requeued, QP!Pending, Queue!Retry, Queue!Viable, Queue!Recoverable,
      Queue!Requeued, Queue!Pending
<1>5. \A b : QP!RetryBatch(b) <=> Queue!RetryBatch(b)
  BY DEF QP!RetryBatch, QP!Retryable, QP!Viable, QP!Recoverable, QP!Requeued, QP!Pending,
      Queue!RetryBatch, Queue!Retryable, Queue!Viable, Queue!Recoverable, Queue!Requeued, Queue!Pending
<1>6. \A t : QP!Delete(t) <=> Queue!Delete(t)
  BY DEF QP!Delete, QP!Active, QP!OpenRuns, QP!Dependents, QP!Remove, Queue!Delete, Queue!Active, Queue!OpenRuns,
      Queue!Dependents, Queue!Remove
<1>7. \A page : QP!Cleanup(page) <=> Queue!Cleanup(page)
  BY DEF QP!Cleanup, QP!Purgeable, QP!Dependents, QP!OpenRuns, QP!Remove, Queue!Cleanup, Queue!Purgeable,
      Queue!Dependents, Queue!OpenRuns, Queue!Remove
<1>8. \A t, excluded : QP!ClaimNext(t, excluded) <=> Queue!ClaimNext(t, excluded)
  BY DEF QP!ClaimNext, QP!Runnable, QP!Waiting, QP!DependencyDone, QP!ActiveTasks, QP!Active,
      QP!OpenRuns, QP!Before, Queue!ClaimNext, Queue!Runnable, Queue!Waiting, Queue!DependencyDone, Queue!ActiveTasks, Queue!Active,
      Queue!OpenRuns, Queue!Before
<1>9. \A t : QP!CreateRun(t) <=> Queue!CreateRun(t)
  BY DEF QP!CreateRun, Queue!CreateRun
<1>10. \A r : QP!CompleteRun(r) <=> Queue!CompleteRun(r)
  BY DEF QP!CompleteRun, QP!OpenRun, QP!RunningTask, QP!Ended, QP!Close, Queue!CompleteRun, Queue!OpenRun,
      Queue!RunningTask, Queue!Ended, Queue!Close
<1>11. \A r, deadLetter : QP!FailRun(r, deadLetter) <=> Queue!FailRun(r, deadLetter)
  BY DEF QP!FailRun, QP!OpenRun, QP!RunningTask, QP!FailedRow, QP!Counted, QP!Close, QP!Cascade,
      QP!Bury, QP!Ended, QP!Downstream, QP!Waiting, Queue!FailRun, Queue!OpenRun, Queue!RunningTask, Queue!FailedRow,
      Queue!Counted, Queue!Close, Queue!Cascade, Queue!Bury, Queue!Ended, Queue!Downstream, Queue!Waiting
<1>12. \A t : QP!Fail(t) <=> Queue!Fail(t)
  BY DEF QP!Fail, QP!RunningTask, QP!FailedRow, QP!Counted, QP!Cascade, QP!Bury, QP!Ended,
      QP!Downstream, QP!Waiting, Queue!Fail, Queue!RunningTask, Queue!FailedRow, Queue!Counted, Queue!Cascade, Queue!Bury, Queue!Ended,
      Queue!Downstream, Queue!Waiting
<1>13. \A r : QP!RecoverRun(r) <=> Queue!RecoverRun(r)
  BY DEF QP!RecoverRun, QP!OpenRun, QP!RunningTask, QP!RecoveredRow, QP!Counted, QP!Pending,
      QP!Close, QP!Cascade, QP!Bury, QP!Ended, QP!Downstream, QP!Waiting, Queue!RecoverRun, Queue!OpenRun,
      Queue!RunningTask, Queue!RecoveredRow, Queue!Counted, Queue!Pending, Queue!Close, Queue!Cascade, Queue!Bury, Queue!Ended, Queue!Downstream,
      Queue!Waiting
<1>14. \A r : QP!InterruptRun(r) <=> Queue!InterruptRun(r)
  BY DEF QP!InterruptRun, QP!OpenRun, QP!RunningTask, QP!Pending, QP!Close, Queue!InterruptRun, Queue!OpenRun,
      Queue!RunningTask, Queue!Pending, Queue!Close
<1>15. \A r : QP!CloseRun(r) <=> Queue!CloseRun(r)
  BY DEF QP!CloseRun, QP!OpenRun, QP!Close, Queue!CloseRun, Queue!OpenRun, Queue!Close
<1>16. \A S : QP!ResetToPending(S) <=> Queue!ResetToPending(S)
  BY DEF QP!ResetToPending, QP!RunningTask, QP!Pending, Queue!ResetToPending, Queue!RunningTask, Queue!Pending
<1>17. \A t : QP!BackoffElapses(t) <=> Queue!BackoffElapses(t)
  BY DEF QP!BackoffElapses, Queue!BackoffElapses
<1>18. QP!ResolveBlocked <=> Queue!ResolveBlocked
  BY DEF QP!ResolveBlocked, QP!Waiting, QP!Viable, QP!Recoverable, QP!Bury, QP!Ended,
      QP!Downstream, Queue!ResolveBlocked, Queue!Waiting, Queue!Viable, Queue!Recoverable, Queue!Bury, Queue!Ended, Queue!Downstream
<1>19. QP!Orphans = Queue!Orphans /\ QP!CountRunning = Queue!CountRunning /\ QP!TaskId = Queue!TaskId /\ QP!RunId = Queue!RunId
  <2>1. QP!Orphans = Queue!Orphans /\ QP!ActiveTasks = Queue!ActiveTasks
    BY DEF QP!Orphans, QP!OpenRuns, QP!ActiveTasks, QP!Active, Queue!Orphans, Queue!OpenRuns, Queue!ActiveTasks, Queue!Active
  <2>2. \A S : QP!Cardinality(S) = Queue!Cardinality(S)
    BY DEF QP!Cardinality, Queue!Cardinality
  <2> QED BY <2>1, <2>2 DEF QP!CountRunning, QP!TaskId, QP!RunId, Queue!CountRunning, Queue!TaskId, Queue!RunId
<1>20. \A r : QP!OpenRun(r) <=> Queue!OpenRun(r)
  BY DEF QP!OpenRun, Queue!OpenRun
<1>21. \A t : QP!RunningTask(t) <=> Queue!RunningTask(t)
  BY DEF QP!RunningTask, Queue!RunningTask
<1> QED BY <1>1, <1>2, <1>3, <1>4, <1>5, <1>6, <1>7, <1>8, <1>9, <1>10, <1>11, <1>12, <1>13, <1>14, <1>15, <1>16, <1>17, <1>18, <1>19, <1>20, <1>21

\* The clients' part of the queue is the same through either instance.
LEMMA SameClients ==
  /\ Queue!ClientAdd <=> QP!ClientAdd
  /\ Queue!ClientUpdate <=> QP!ClientUpdate
  /\ Queue!ClientCancel <=> QP!ClientCancel
  /\ Queue!ClientRetry <=> QP!ClientRetry
  /\ Queue!ClientRetryBatch <=> QP!ClientRetryBatch
  /\ Queue!ClientDelete <=> QP!ClientDelete
<1>1. Queue!ClientAdd <=> QP!ClientAdd
  BY DEF Queue!ClientAdd, Queue!Add, Queue!Viable, Queue!Recoverable, Queue!TaskId,
     QP!ClientAdd, QP!Add, QP!Viable, QP!Recoverable, QP!TaskId
<1>2. Queue!ClientUpdate <=> QP!ClientUpdate
  BY SameQueueStore DEF Queue!ClientUpdate, QP!ClientUpdate
<1>3. Queue!ClientCancel <=> QP!ClientCancel
  BY SameQueueStore DEF Queue!ClientCancel, QP!ClientCancel
<1>4. Queue!ClientRetry <=> QP!ClientRetry
  BY SameQueueStore DEF Queue!ClientRetry, QP!ClientRetry
<1>5. Queue!ClientRetryBatch <=> QP!ClientRetryBatch
  BY SameQueueStore DEF Queue!ClientRetryBatch, QP!ClientRetryBatch
<1>6. Queue!ClientDelete <=> QP!ClientDelete
  BY SameQueueStore DEF Queue!ClientDelete, QP!ClientDelete
<1> QED BY <1>1, <1>2, <1>3, <1>4, <1>5, <1>6

\* A step of the queue is the same through either instance.
LEMMA SameQueue ==
  /\ Queue!Init <=> QP!Init
  /\ Queue!vars = QP!vars
  /\ Queue!Next <=> QP!Next
<1>1. Queue!Init <=> QP!Init
  BY DEF Queue!Init, Queue!StoreInit, QP!Init, QP!StoreInit
<1>2. Queue!vars = QP!vars
  BY DEF Queue!vars, QP!vars
<1>3. Queue!Client <=> QP!Client
  <2>1. Queue!ClientAbandon <=> QP!ClientAbandon
    BY SameQueueStore DEF Queue!ClientAbandon, QP!ClientAbandon
  <2> QED BY <2>1, SameClients DEF Queue!Client, QP!Client, Queue!queueVars, QP!queueVars
<1>4. /\ Queue!GatewayStart <=> QP!GatewayStart
      /\ Queue!Poll <=> QP!Poll
  BY SameQueueStore DEF Queue!GatewayStart, QP!GatewayStart, Queue!Poll, QP!Poll, Queue!ResetOrphans, QP!ResetOrphans
<1>5. /\ Queue!GatewayReady <=> QP!GatewayReady
      /\ Queue!GatewayStop <=> QP!GatewayStop
      /\ Queue!GatewayExit <=> QP!GatewayExit
      /\ Queue!Look <=> QP!Look
      /\ Queue!NoDispatch <=> QP!NoDispatch
  BY SameQueueStore DEF Queue!GatewayReady, QP!GatewayReady, Queue!GatewayStop, QP!GatewayStop,
     Queue!GatewayExit, QP!GatewayExit, Queue!Look, QP!Look, Queue!NoDispatch, QP!NoDispatch,
     Queue!storeVars, QP!storeVars
<1>6. Queue!Dispatch <=> QP!Dispatch
  BY SameQueueStore DEF Queue!Dispatch, QP!Dispatch
<1>7. /\ Queue!StartRun <=> QP!StartRun
      /\ Queue!StartFails <=> QP!StartFails
      /\ Queue!HandBack <=> QP!HandBack
  BY SameQueueStore DEF Queue!StartRun, QP!StartRun, Queue!StartFails, QP!StartFails,
     Queue!HandBack, QP!HandBack, Queue!storeVars, QP!storeVars
<1>8. /\ Queue!Execution <=> QP!Execution
      /\ Queue!Shutdown <=> QP!Shutdown
  BY SameQueueStore DEF Queue!Execution, QP!Execution, Queue!Settle, QP!Settle, Queue!Shutdown, QP!Shutdown,
     Queue!queueVars, QP!queueVars
<1>9. /\ Queue!Retention <=> QP!Retention
      /\ Queue!Backoff <=> QP!Backoff
  BY SameQueueStore DEF Queue!Retention, QP!Retention, Queue!Backoff, QP!Backoff, Queue!queueVars, QP!queueVars
<1>10. Queue!Next <=> QP!Next
  BY <1>3, <1>4, <1>5, <1>6, <1>7, <1>8, <1>9 DEF Queue!Next, QP!Next
<1> QED BY <1>1, <1>2, <1>10

-----------------------------------------------------------------------------
(* The inductive invariant: that of the queue, and what relates the        *)
(* Worker's memory, the process groups and the rows.                       *)

Guarded == {"guardian", "token"}

\* START has been sent, or more.
Started(r) == Executing(r) \/ group[r] = "told"

\* Ids not given out yet have no process.
FreshOK ==
  \A r \in RunId : r >= nextRun => group[r] = "none" /\ protocol[r] = "token" /\ r \notin childPid

\* A group that has started, or that may be killed by its pid, belongs to an
\* open run; a launcher is known before it starts.
GroupsOK ==
  \A r \in RunId :
     /\ Started(r) \/ (group[r] = "gate" /\ r \in childPid) => OpenRun(r)
     /\ Started(r) /\ protocol[r] \in Guarded => r \in childPid
     /\ protocol[r] # "token" => group[r] # "killed"

\* What the Worker believes of an entry is so: it settles only what is gone,
\* and a launcher still at the gate is being started or is to be ended.
EntryOK(r) ==
  /\ OpenRun(r)
  /\ protocol[r] = "token"
  /\ runningTasks[r].task = runs[r].task
  /\ runningTasks[r].settle # "no" => group[r] = "gone"
  /\ runningTasks[r].drained => group[r] \in {"drained", "killed", "gone"}
  /\ runningTasks[r].closed => group[r] \in {"loose", "gone"}
  /\ runningTasks[r].kill # "no" => group[r] # "gate"
  /\ runningTasks[r].term = "shutdown" => halt \in {"kill", "close"}
  /\ runningTasks[r].term = "cancel" => tasks[runs[r].task].status = "cancelled"
  /\ group[r] = "gate" /\ runningTasks[r].term = "none" =>
        r = cur /\ phase \in {"record", "release", "abort"}

EntriesOK == \A r \in DOMAIN runningTasks : EntryOK(r)

BatchesOK ==
  /\ BatchesHeld
  /\ batch # NoBatch => phase \in {"claimed", "spawn", "handback"}
  /\ \A r \in DOMAIN runningTasks : runningTasks[r].batch # NoBatch =>
        /\ runningTasks[r].batch # batch
        /\ \A q \in DOMAIN runningTasks : runningTasks[q].batch = runningTasks[r].batch => q = r

\* The run being started is the loop's alone until it has an entry.
LoopOK ==
  /\ gateway \in {"down", "starting"} => Idle
  /\ phase = "spawn" => /\ cur \in RunId /\ cur \notin DOMAIN runningTasks
                        /\ OpenRun(cur) /\ group[cur] = "none" /\ protocol[cur] = "token"
  /\ phase = "handback" => /\ gateway = "stopping"
                           /\ cur \in DOMAIN runs => \A r \in DOMAIN runs : OpenRun(r) => runs[r].task # runs[cur].task
  /\ phase = "release" => cur \in childPid
  /\ phase \in {"record", "release"} /\ gateway = "up" => cur \in DOMAIN runningTasks \/ ~OpenRun(cur)

HaltOK ==
  /\ halt # "no" => gateway = "stopping"
  /\ halt \in {"kill", "close"} => phase = "idle"
  /\ interrupted # {} => halt \in {"kill", "close"}
  /\ \A r \in interrupted : group[r] = "gone" /\ r \notin DOMAIN runningTasks

\* What the Watchdog read of a run is still enough to judge it by.
WatchOK ==
  /\ todo # {} \/ dying # 0 => gateway = "up"
  /\ \A r \in RunId, known \in BOOLEAN : <<r, known>> \in todo =>
        /\ r < nextRun
        /\ phase = "spawn" => r # cur
        /\ known => r \in childPid
        /\ ~known /\ r \in childPid => r \in DOMAIN runningTasks \/ ~OpenRun(r)
  /\ dying # 0 => /\ dying < nextRun /\ dying \notin DOMAIN runningTasks
                  /\ phase = "spawn" => dying # cur

MInv == TypeOK /\ FreshOK /\ GroupsOK /\ EntriesOK /\ BatchesOK /\ LoopOK /\ HaltOK /\ WatchOK

EInv == QP!HInv /\ MInv

-----------------------------------------------------------------------------
(* Every step of Execution is one of the queue, or none.                   *)

\* What the queue's invariant says of the tables.
LEMMA QueueFacts ==
  ASSUME QP!HInv
  PROVE  /\ StoreTypeOK
         /\ phase = "claimed" <=> claim # 0
         /\ \A r \in DOMAIN runs : r < nextRun
         /\ \A r \in DOMAIN runs : OpenRun(r) =>
               /\ runs[r].task \in DOMAIN tasks
               /\ tasks[runs[r].task].status \in {"running", "cancelled"}
         /\ \A q, r \in DOMAIN runs : OpenRun(q) /\ OpenRun(r) /\ runs[q].task = runs[r].task => q = r
         /\ claim # 0 => \A r \in DOMAIN runs : OpenRun(r) => runs[r].task # claim
<1>0. QP!IInv
  BY DEF QP!HInv
<1>1. StoreTypeOK
  BY <1>0 DEF QP!IInv, QP!TypeOK, QP!StoreTypeOK, QP!TaskRow, QP!RunRow, QP!TaskId, QP!RunId,
         QP!TaskStatus, QP!RunStatus, StoreTypeOK, TaskRow, RunRow, TaskId, RunId, TaskStatus, RunStatus
<1>2. /\ phase = "claimed" <=> claim # 0
      /\ claim # 0 => \A r \in DOMAIN runs : OpenRun(r) => runs[r].task # claim
  BY <1>0 DEF QP!IInv, QP!ClaimOK, QueuePhase, QP!OpenRun, OpenRun
<1>3. /\ \A r \in DOMAIN runs : r < nextRun
      /\ \A r \in DOMAIN runs : OpenRun(r) =>
            /\ runs[r].task \in DOMAIN tasks
            /\ tasks[runs[r].task].status \in {"running", "cancelled"}
      /\ \A q, r \in DOMAIN runs : OpenRun(q) /\ OpenRun(r) /\ runs[q].task = runs[r].task => q = r
  BY <1>0 DEF QP!IInv, QP!RunsOK, QP!OpenRun, OpenRun
<1> QED BY <1>1, <1>2, <1>3

\* A step that leaves what the queue sees alone is a stutter of it.
LEMMA Stutter ==
  ASSUME UNCHANGED <<storeVars, gateway, claim>>, QueuePhase' = QueuePhase
  PROVE  [QP!Next]_QP!vars
BY DEF QP!vars, storeVars

\* Clients, time, the cleanup and the life of the Gateway are those of the queue.
LEMMA OutsideStep ==
  ASSUME EInv, Client \/ Abandon \/ Time \/ Retention \/ GatewayStart \/ GatewayReady \/ Crash \/ Exit
  PROVE  QP!Next
<1>1. CASE Client
  <2>1. UNCHANGED <<gateway, phase, claim>>
    BY <1>1 DEF Client, memory, loopVars, stopVars
  <2>2. QP!ClientAdd \/ QP!ClientUpdate \/ QP!ClientCancel \/ QP!ClientRetry \/ QP!ClientRetryBatch \/ QP!ClientDelete
    BY <1>1, SameClients DEF Client
  <2> QED BY <2>1, <2>2 DEF QP!Next, QP!Client, QP!queueVars, QueuePhase
<1>2. CASE Abandon
  <2>1. UNCHANGED <<gateway, phase, claim>>
    BY <1>2 DEF Abandon, memory, loopVars, stopVars
  <2>2. PICK r \in RunId : CloseRun(r) /\ tasks[runs[r].task].status = "cancelled"
    BY <1>2 DEF Abandon
  <2>3. QP!ClientAbandon
    BY <2>2, SameStore DEF QP!ClientAbandon
  <2> QED BY <2>1, <2>3 DEF QP!Next, QP!Client, QP!queueVars, QueuePhase
<1>3. CASE Time
  <2>1. UNCHANGED <<gateway, phase, claim>>
    BY <1>3 DEF Time, memory, loopVars, stopVars
  <2> QED BY <1>3, <2>1, SameStore DEF Time, QP!Next, QP!Backoff, QP!queueVars, QueuePhase
<1>4. CASE Retention
  <2>1. UNCHANGED <<gateway, phase, claim>>
    BY <1>4 DEF Retention, memory, loopVars, stopVars
  <2> QED BY <1>4, <2>1, SameStore DEF Retention, QP!Next, QP!Retention, QP!queueVars, QueuePhase
<1>5. CASE GatewayStart
  <2>1. QP!ResetOrphans
    BY <1>5, SameStore DEF GatewayStart, ResetOrphans, QP!ResetOrphans
  <2> QED BY <1>5, <2>1 DEF GatewayStart, QP!Next, QP!GatewayStart, QueuePhase, loopVars
<1>6. CASE GatewayReady
  <2> QED BY <1>6, SameStore DEF GatewayReady, QP!Next, QP!GatewayReady, QueuePhase, loopVars
<1>7. CASE Crash \/ Exit
  <2>1. gateway # "down"
    BY <1>7 DEF Crash, Exit, EInv, MInv, LoopOK, Idle
  <2> QED BY <1>7, <2>1 DEF Crash, Exit, Vanish, QP!Next, QP!GatewayExit, QueuePhase, QP!storeVars, storeVars
<1> QED BY <1>1, <1>2, <1>3, <1>4, <1>5, <1>6, <1>7

\* A run ends: by its entry, by the Watchdog, or by the loop that gives it up.
LEMMA SettleStep ==
  ASSUME EInv, UNCHANGED <<gateway, claim>>, QueuePhase' = QueuePhase, NEW r \in RunId,
         \/ /\ gateway \in {"up", "stopping"}
            /\ \/ CompleteRun(r)
               \/ \E deadLetter \in BOOLEAN : FailRun(r, deadLetter)
               \/ RecoverRun(r)
               \/ CloseRun(r) /\ ~RunningTask(runs[r].task)
         \/ gateway = "stopping" /\ (InterruptRun(r) \/ CloseRun(r))
  PROVE  QP!Next
<1>1. \/ QP!Settle(r) /\ gateway \in {"up", "stopping"}
      \/ gateway = "stopping" /\ (QP!InterruptRun(r) \/ QP!CloseRun(r))
  BY SameStore DEF QP!Settle
<1>2. r \in QP!RunId
  BY SameStore
<1> QED BY <1>1, <1>2 DEF QP!Next, QP!Execution, QP!Shutdown, QP!queueVars

\* Of what goes on with an entry, the queue sees the end of its run.
LEMMA EntryStep ==
  ASSUME EInv, Entries
  PROVE  [QP!Next]_QP!vars
<1>1. PICK r \in RunId :
        \/ KillSucceeds(r) \/ KillEscalates(r) \/ KillFails(r) \/ Commit(r) \/ GiveUp(r)
        \/ DrainProof(r) \/ ChildClose(r) \/ Timeout(r)
  BY DEF Entries
<1>2. UNCHANGED <<gateway, phase, claim>>
  BY <1>1 DEF KillSucceeds, KillEscalates, KillFails, Commit, GiveUp, DrainProof, ChildClose, Timeout,
         loopVars, stopVars
<1>3. QueuePhase' = QueuePhase
  BY <1>2 DEF QueuePhase
<1>4. CASE UNCHANGED storeVars
  BY <1>2, <1>3, <1>4, Stutter
<1>5. CASE Commit(r) /\ Outcome(r)
  <2>1. r \in DOMAIN runningTasks /\ EntryOK(r)
    BY <1>5 DEF Commit, EInv, MInv, EntriesOK
  <2>2. gateway \in {"up", "stopping"}
    BY <2>1 DEF EInv, MInv, TypeOK, LoopOK, Idle
  <2>3. \/ UNCHANGED storeVars
        \/ CompleteRun(r) \/ FailRun(r, FALSE)
        \/ CloseRun(r) /\ ~RunningTask(runs[r].task)
    BY <1>5, <2>1 DEF Outcome, Superseded, EntryOK, RunningTask
  <2> QED BY <1>2, <1>3, <1>4, <2>2, <2>3, SettleStep
<1> QED BY <1>1, <1>4, <1>5 DEF KillSucceeds, KillEscalates, KillFails, Commit, GiveUp, DrainProof,
           ChildClose, Timeout

\* The dispatch loop looks, claims and starts as the queue does; a cycle that
\* ends with nothing to do, or gives up a start, is one of its steps as well.
LEMMA CycleStep ==
  ASSUME EInv, Cycle
  PROVE  [QP!Next]_QP!vars
<1>0. /\ phase = "claimed" <=> claim # 0
      /\ StoreTypeOK
      /\ \A r \in DOMAIN runs : OpenRun(r) =>
            /\ runs[r].task \in DOMAIN tasks
            /\ tasks[runs[r].task].status \in {"running", "cancelled"}
  BY QueueFacts DEF EInv
<1>1. phase # "idle" => gateway \in {"up", "stopping"}
  BY DEF EInv, MInv, TypeOK, LoopOK, Idle
<1>2. CASE Poll
  <2>1. QP!ResetOrphans
    BY <1>2, SameStore DEF Poll, ResetOrphans, QP!ResetOrphans
  <2>2. QP!Poll
    BY <1>2, <2>1 DEF Poll, QP!Poll, QueuePhase, stopVars
  <2> QED BY <2>2 DEF QP!Next
<1>3. CASE Reconcile \/ Reconciled \/ Spawn \/ RecordPid \/ SendStart \/ StartLost \/ Abort \/ Aborted
  <2>1. UNCHANGED <<storeVars, gateway, claim>>
    BY <1>3 DEF Reconcile, Reconciled, Spawn, RecordPid, SendStart, StartLost, Abort, Aborted, MayStart, stopVars
  <2>2. phase \notin {"idle", "slot", "claimed"} /\ phase' \notin {"idle", "slot", "claimed"}
    BY <1>3 DEF Reconcile, Reconciled, Spawn, RecordPid, SendStart, StartLost, Abort, Aborted, MayStart
  <2> QED BY <2>1, <2>2, Stutter DEF QueuePhase
<1>4. CASE Look
  <2>1. QP!CountRunning < MaxConcurrency
    BY <1>4, SameStore DEF Look
  <2>2. QP!Look
    BY <1>4, <2>1 DEF Look, QP!Look, QueuePhase, stopVars, storeVars, QP!storeVars
  <2> QED BY <2>2 DEF QP!Next
<1>5. CASE PollEnds
  <2>1. UNCHANGED <<storeVars, gateway, claim>> /\ phase' = "idle"
    BY <1>5 DEF PollEnds, stopVars
  <2>2. CASE gateway = "up"
    BY <1>5, <2>1, <2>2 DEF PollEnds, QP!Next, QP!NoDispatch, QueuePhase, storeVars, QP!storeVars
  <2>3. CASE gateway = "stopping"
    BY <1>5, <2>1, <2>3, Stutter DEF PollEnds, QueuePhase
  <2> QED BY <1>1, <1>5, <2>2, <2>3 DEF PollEnds
<1>6. CASE Dispatch
  <2>1. activeBatchIds \in SUBSET Batches
    BY DEF EInv, MInv, TypeOK
  <2>2. QP!Dispatch
    BY <1>6, <2>1, SameStore DEF Dispatch, QP!Dispatch, QueuePhase, stopVars
  <2> QED BY <2>2 DEF QP!Next
<1>7. CASE HandBackClaim
  <2>1. QP!ResetToPending({claim})
    BY <1>7, SameStore DEF HandBackClaim
  <2>2. QP!HandBack
    BY <1>7, <2>1 DEF HandBackClaim, Release, QP!HandBack, QueuePhase, stopVars
  <2> QED BY <2>2 DEF QP!Next
<1>8. CASE StartRun
  <2>1. gateway \in {"up", "stopping"} /\ gateway' = gateway
    BY <1>1, <1>8 DEF StartRun, stopVars
  <2>2. QP!StartRun
    BY <1>8, <2>1, SameStore DEF StartRun, QP!StartRun, QueuePhase
  <2> QED BY <2>2 DEF QP!Next
<1>9. CASE StartFails
  <2>1. gateway \in {"up", "stopping"} /\ gateway' = gateway
    BY <1>1, <1>9 DEF StartFails, stopVars
  <2>2. QP!StartFails
    BY <1>9, <2>1, SameStore DEF StartFails, Release, QP!StartFails, QueuePhase, storeVars, QP!storeVars
  <2> QED BY <2>2 DEF QP!Next
<1>10. CASE HandBackRun
  <2>1. cur \in RunId /\ CloseRun(cur) /\ gateway = "stopping"
    BY <1>10 DEF HandBackRun, EInv, MInv, LoopOK
  <2>2. UNCHANGED <<gateway, claim>> /\ QueuePhase' = QueuePhase
    BY <1>10 DEF HandBackRun, QueuePhase, stopVars
  <2> QED BY <2>1, <2>2, SettleStep
<1>11. CASE HandBack
  <2>1. /\ phase = "handback" /\ phase' = "idle" /\ claim = 0 /\ claim' = 0
        /\ gateway = "stopping" /\ gateway' = "stopping"
    BY <1>0, <1>11 DEF HandBack, Release, EInv, MInv, LoopOK, stopVars
  <2>2. QueuePhase' = QueuePhase
    BY <2>1 DEF QueuePhase
  <2>3. CASE UNCHANGED storeVars
    BY <2>1, <2>2, <2>3, Stutter
  <2>4. CASE cur \in DOMAIN runs /\ ResetToPending({runs[cur].task})
    <3> DEFINE t == runs[cur].task
    <3>1. CASE RunningTask(t)
      <4>1. t \in Orphans
        BY <2>1, <2>4, <3>1 DEF Orphans, OpenRuns, OpenRun, RunningTask, EInv, MInv, LoopOK
      <4>2. t # 0
        BY <1>0, <4>1 DEF Orphans, StoreTypeOK, TaskId
      <4> HIDE DEF t
      <4>3. QP!HandBack
        <5>1. t \in QP!Orphans \cup {claim} /\ QP!ResetToPending({t})
          BY <2>4, <4>1, SameStore DEF t
        <5>2. claim' = (IF t = claim THEN 0 ELSE claim) /\ QueuePhase' = (IF t = claim THEN "idle" ELSE QueuePhase)
          BY <2>1, <2>2, <4>2
        <5> QED BY <2>1, <5>1, <5>2 DEF QP!HandBack
      <4> QED BY <4>3 DEF QP!Next
    <3>2. CASE ~RunningTask(t)
      <4>1. UNCHANGED storeVars
        BY <1>0, <2>4, <3>2 DEF ResetToPending, storeVars, StoreTypeOK
      <4> QED BY <2>3, <4>1
    <3> QED BY <3>1, <3>2
  <2>5. CASE cur \notin DOMAIN runs /\ ResetToPending({})
    <3>1. UNCHANGED storeVars
      BY <1>0, <2>5 DEF ResetToPending, storeVars, StoreTypeOK
    <3> QED BY <2>3, <3>1
  <2>6. /\ cur \in DOMAIN runs => {runs[r].task : r \in {cur} \cap DOMAIN runs} = {runs[cur].task}
        /\ cur \notin DOMAIN runs => {runs[r].task : r \in {cur} \cap DOMAIN runs} = {}
    OBVIOUS
  <2> QED BY <1>11, <2>3, <2>4, <2>5, <2>6 DEF HandBack
<1>12. CASE Reject \/ SpawnFails
  <2>1. phase = "spawn" /\ phase' = "look" /\ gateway' = gateway /\ claim = 0 /\ claim' = 0
    BY <1>0, <1>12 DEF Reject, SpawnFails, Release, stopVars
  <2>2. QueuePhase' = QueuePhase
    BY <2>1 DEF QueuePhase
  <2>3. cur \in RunId /\ gateway \in {"up", "stopping"}
    BY <1>1, <2>1 DEF EInv, MInv, LoopOK
  <2>4. \/ FailRun(cur, TRUE)
        \/ FailRun(cur, FALSE)
        \/ CloseRun(cur) /\ ~RunningTask(runs[cur].task)
        \/ UNCHANGED storeVars
    BY <1>12 DEF Reject, SpawnFails
  <2> QED BY <2>1, <2>2, <2>3, <2>4, SettleStep, Stutter
<1> QED BY <1>2, <1>3, <1>4, <1>5, <1>6, <1>7, <1>8, <1>9, <1>10, <1>11, <1>12 DEF Cycle

\* The shutdown stops the queue and interrupts, the Watchdog recovers; the
\* queue sees nothing else of them, nor of the processes.
LEMMA RestStep ==
  ASSUME EInv, Shutdown \/ Watchdog \/ Processes \/ UNCHANGED vars
  PROVE  [QP!Next]_QP!vars
<1>1. CASE GatewayStop
  <2>1. QP!GatewayStop
    BY <1>1 DEF GatewayStop, QP!GatewayStop, QueuePhase, loopVars, storeVars, QP!storeVars
  <2> QED BY <2>1 DEF QP!Next
<1>2. CASE GraceEnds \/ StopEntry \/ Stopped
  BY <1>2, Stutter DEF GraceEnds, StopEntry, Stopped, QueuePhase, loopVars, stopVars
<1>3. CASE Requeue
  <2>1. PICK r \in interrupted : InterruptRun(r) \/ UNCHANGED storeVars
    BY <1>3 DEF Requeue
  <2>2. UNCHANGED <<gateway, claim>> /\ QueuePhase' = QueuePhase
    BY <1>3 DEF Requeue, loopVars, QueuePhase
  <2>3. gateway = "stopping" /\ r \in RunId
    BY <2>1 DEF EInv, MInv, HaltOK, TypeOK
  <2> QED BY <2>1, <2>2, <2>3, SettleStep, Stutter
<1>4. CASE Exit
  BY <1>4, OutsideStep
<1>5. CASE Check \/ Skip \/ KillStale \/ LeaveKilled \/ Processes \/ UNCHANGED vars
  <2>1. UNCHANGED <<storeVars, gateway, phase, claim>>
    BY <1>5 DEF Check, Skip, KillStale, LeaveKilled, Processes, LauncherStarts, LauncherLeaves, TreeEnds,
           LauncherExits, LauncherLost, GroupDies, Becomes, memory, vars, loopVars, stopVars
  <2> QED BY <2>1, Stutter DEF QueuePhase
<1>6. CASE Recover \/ RecoverKilled
  <2>1. UNCHANGED <<gateway, phase, claim>>
    BY <1>6 DEF Recover, RecoverKilled, loopVars, stopVars
  <2>2. PICK r \in RunId : RecoverRun(r) /\ gateway = "up"
    BY <1>6 DEF Recover, RecoverKilled, EInv, MInv, WatchOK, TypeOK
  <2> QED BY <2>1, <2>2, SettleStep DEF QueuePhase
<1> QED BY <1>1, <1>2, <1>3, <1>4, <1>5, <1>6 DEF Shutdown, Watchdog

\* Each step is one of the queue, or a stutter of it.
LEMMA Simulation ==
  ASSUME EInv, [Next]_vars
  PROVE  [QP!Next]_QP!vars
BY OutsideStep, EntryStep, CycleStep, RestStep DEF Next

-----------------------------------------------------------------------------
(* What a step does to the tables, as far as the memory is concerned.      *)

\* Runs other than those of S stay open, none is opened, a run stays with
\* its task, and a task cancelled in execution stays so.
Tables(S) ==
  /\ StoreTypeOK'
  /\ nextRun' = nextRun
  /\ DOMAIN runs' \subseteq DOMAIN runs
  /\ \A r \in DOMAIN runs' : runs'[r].task = runs[r].task
  /\ \A r \in RunId : OpenRun(r) /\ r \notin S => OpenRun(r)'
  /\ \A r \in RunId : OpenRun(r)' => OpenRun(r)
  /\ \A r \in RunId : OpenRun(r)' /\ tasks[runs[r].task].status = "cancelled"
                        => tasks'[runs[r].task].status = "cancelled"

Unopened(S) ==
  /\ nextRun' = nextRun
  /\ DOMAIN runs' \subseteq DOMAIN runs
  /\ \A r \in DOMAIN runs' : runs'[r].task = runs[r].task
  /\ \A r \in RunId : OpenRun(r) /\ r \notin S => OpenRun(r)'
  /\ \A r \in RunId : OpenRun(r)' => OpenRun(r)

\* Clients' operations, resets, claims and time leave the runs alone.
LEMMA RunsUntouched ==
  ASSUME UNCHANGED <<runs, nextRun>>
  PROVE  Unopened({})
BY DEF Unopened, OpenRun

\* A task with an open run is neither deleted nor purged.
LEMMA DeletionKeeps ==
  ASSUME (\E t : Delete(t)) \/ (\E page : Cleanup(page))
  PROVE  Unopened({})
<1>1. ASSUME NEW S, Remove(S), \A t \in S : OpenRuns(t) = {}
      PROVE  Unopened({})
  BY <1>1 DEF Unopened, Remove, OpenRuns, OpenRun
<1>2. ASSUME NEW t, Delete(t)
      PROVE  Unopened({})
  BY <1>1, <1>2 DEF Delete, Active
<1>3. ASSUME NEW page, Cleanup(page)
      PROVE  Unopened({})
  <2>1. Purgeable(page) \subseteq page
    BY DEF Purgeable
  <2> QED BY <1>1, <1>3, <2>1 DEF Cleanup
<1> QED BY <1>2, <1>3

\* The end of a run ends no other.
LEMMA RunEnds ==
  ASSUME StoreTypeOK, NEW r,
         \/ CompleteRun(r)
         \/ \E deadLetter \in BOOLEAN : FailRun(r, deadLetter)
         \/ RecoverRun(r) \/ InterruptRun(r) \/ CloseRun(r)
  PROVE  Unopened({r}) /\ OpenRun(r) /\ ~OpenRun(r)'
<1>1. OpenRun(r) /\ nextRun' = nextRun
  BY DEF CompleteRun, FailRun, RecoverRun, InterruptRun, CloseRun
<1>2. PICK status \in {"done", "failed"} : Close(r, status)
  BY DEF CompleteRun, FailRun, RecoverRun, InterruptRun, CloseRun
<1>3. /\ DOMAIN runs' = DOMAIN runs
      /\ \A q \in DOMAIN runs \ {r} : runs'[q] = runs[q]
      /\ runs'[r].status = status /\ runs'[r].task = runs[r].task
  BY <1>1, <1>2 DEF Close, OpenRun, StoreTypeOK, RunRow
<1>4. status # "running"
  BY <1>2
<1> QED BY <1>1, <1>3, <1>4 DEF Unopened, OpenRun

TableFacts ==
  /\ StoreTypeOK
  /\ phase = "claimed" <=> claim # 0
  /\ \A r \in DOMAIN runs : r < nextRun
  /\ \A r \in DOMAIN runs : OpenRun(r) =>
        /\ runs[r].task \in DOMAIN tasks
        /\ tasks[runs[r].task].status \in {"running", "cancelled"}
  /\ \A q, r \in DOMAIN runs : OpenRun(q) /\ OpenRun(r) /\ runs[q].task = runs[r].task => q = r
  /\ claim # 0 => \A r \in DOMAIN runs : OpenRun(r) => runs[r].task # claim

\* The queue's invariant gives these facts ...
LEMMA HasFacts == QP!HInv => TableFacts
BY QueueFacts DEF TableFacts

\* ... after a step as before it.
LEMMA HadFacts == QP!HInv' => TableFacts'
BY HasFacts, PTL

\* The queue's invariant is kept, as each step is one of the queue.
LEMMA QueueKept ==
  ASSUME EInv, [Next]_vars
  PROVE  QP!HInv' /\ TableFacts'
<1>1. [QP!Next]_QP!vars
  BY Simulation
<1>2. QP!HInv'
  BY <1>1, QP!KeptStep, StoreConstants, ConcurrencyAssumption DEF EInv
<1> QED BY <1>2, HadFacts

\* A task cancelled in execution stays so: its run settles without it.
LEMMA CancelledKept ==
  ASSUME EInv, [Next]_vars, NEW t \in DOMAIN tasks \cap DOMAIN tasks', tasks[t].status = "cancelled"
  PROVE  tasks'[t].status = "cancelled"
<1>1. QP!HInv /\ [QP!Next]_QP!vars
  BY Simulation DEF EInv
<1>2. QP!Steady \/ \E S : QP!Removes(S)
  BY <1>1, QP!StepKind, StoreConstants, ConcurrencyAssumption
<1>3. CASE QP!Steady
  BY <1>3 DEF QP!Steady, QP!SteadyRow, QP!Over
<1>4. ASSUME NEW S, QP!Removes(S)
      PROVE  tasks'[t] = tasks[t]
  BY <1>4 DEF QP!Removes, QP!Remove
<1> QED BY <1>2, <1>3, <1>4

\* A step that opens no run is one the memory may rely on.
LEMMA TablesStep ==
  ASSUME EInv, [Next]_vars, NEW S, Unopened(S)
  PROVE  Tables(S)
<1>1. TableFacts /\ TableFacts'
  BY QueueKept, HasFacts DEF EInv
<1>2. ASSUME NEW r \in RunId, OpenRun(r)', tasks[runs[r].task].status = "cancelled"
      PROVE  tasks'[runs[r].task].status = "cancelled"
  <2>1. OpenRun(r) /\ r \in DOMAIN runs' /\ runs'[r].task = runs[r].task
    BY <1>2 DEF Unopened, OpenRun
  <2>2. runs[r].task \in DOMAIN tasks /\ runs[r].task \in DOMAIN tasks'
    BY <1>1, <1>2, <2>1 DEF TableFacts, OpenRun
  <2> QED BY <1>2, <2>2, CancelledKept
<1> QED BY <1>1, <1>2 DEF Unopened, Tables, TableFacts

\* So is a step that leaves the tables alone.
LEMMA TablesAlone ==
  ASSUME EInv, [Next]_vars, UNCHANGED storeVars
  PROVE  Tables({})
BY RunsUntouched, TablesStep DEF storeVars

-----------------------------------------------------------------------------
(* The memory's invariant, by what a step touches: the tables alone, the   *)
(* processes alone, everything remembered.                                 *)

\* The parts of the invariant, to be cited at once.
LEMMA HasMemory ==
  ASSUME EInv
  PROVE  /\ TypeOK /\ FreshOK /\ GroupsOK /\ EntriesOK /\ BatchesOK /\ LoopOK /\ HaltOK /\ WatchOK
         /\ TableFacts
BY HasFacts DEF EInv, MInv

\* Entry e, of run r, is right about group g.
Fits(r, e, g) ==
  /\ e \in Entry /\ g \in Groups
  /\ e.task = runningTasks[r].task /\ e.batch = runningTasks[r].batch
  /\ e.settle # "no" => g = "gone"
  /\ e.drained => g \in {"drained", "killed", "gone"}
  /\ e.closed => g \in {"loose", "gone"}
  /\ e.kill # "no" => g # "gate"

\* An entry is right about its group, and writing back what is there changes nothing.
LEMMA OwnEntry ==
  ASSUME EInv, NEW r \in DOMAIN runningTasks
  PROVE  /\ r \in RunId /\ runningTasks[r] \in Entry /\ group[r] \in Groups
         /\ group = [group EXCEPT ![r] = group[r]]
         /\ runningTasks = [runningTasks EXCEPT ![r] = runningTasks[r]]
         /\ EntryOK(r) /\ Fits(r, runningTasks[r], group[r])
<1>1. /\ r \in RunId /\ runningTasks[r] \in Entry /\ group[r] \in Groups
      /\ group = [group EXCEPT ![r] = group[r]]
      /\ runningTasks = [runningTasks EXCEPT ![r] = runningTasks[r]]
      /\ EntryOK(r)
  BY HasMemory DEF TypeOK, EntriesOK
<1> QED BY <1>1 DEF EntryOK, Fits

\* The Gateway as it starts, or as it is.
Proceeds ==
  \/ gateway' = gateway
  \/ gateway = "down" /\ gateway' = "starting"
  \/ gateway = "starting" /\ gateway' = "up"

\* Steps beside the loop and the entries; a run they end has nothing left.
LEMMA AsideKeeps ==
  ASSUME EInv, NEW S \in SUBSET RunId, Tables(S),
         \A r \in S : /\ r \notin DOMAIN runningTasks /\ ~Started(r) /\ ~(group[r] = "gate" /\ r \in childPid)
                      /\ phase = "spawn" => r # cur,
         UNCHANGED <<phase, claim, batch, cur, workerVars, osVars>>,
         \/ gateway \in {"up", "stopping"} /\ gateway' \in {gateway, "stopping"}
         \/ UNCHANGED <<left, halt, interrupted, todo, dying>> /\ Proceeds,
         halt \in {"kill", "close"} => halt' \in {"kill", "close"},
         TypeOK', HaltOK', WatchOK'
  PROVE  MInv'
<1> USE HasMemory
<1>1. UNCHANGED <<runningTasks, activeBatchIds, childPid, protocol, group>>
  BY DEF workerVars, osVars
<1>2. FreshOK'
  BY <1>1 DEF FreshOK, Tables
<1>3. GroupsOK'
  BY <1>1 DEF GroupsOK, Tables, Started, Executing
<1>4. EntriesOK'
  <2> SUFFICES ASSUME NEW r \in DOMAIN runningTasks PROVE EntryOK(r)'
    BY <1>1 DEF EntriesOK
  <2>1. EntryOK(r) /\ r \in RunId /\ r \notin S
    BY OwnEntry
  <2>2. OpenRun(r)' /\ r \in DOMAIN runs' /\ runs'[r].task = runs[r].task
    BY <2>1 DEF EntryOK, Tables, OpenRun
  <2> QED BY <1>1, <2>1, <2>2 DEF EntryOK, Tables
<1>5. BatchesOK'
  BY <1>1 DEF BatchesOK, BatchesHeld
<1>6. LoopOK'
  <2>1. gateway' \in {"down", "starting"} => Idle'
    BY <1>1 DEF Proceeds, LoopOK, Idle
  <2>2. phase = "spawn" => OpenRun(cur)'
    BY DEF LoopOK, Tables
  <2>3. phase = "handback" => gateway' = "stopping"
    BY DEF Proceeds, LoopOK
  <2>4. gateway' = "up" => gateway = "up" \/ Idle
    BY DEF Proceeds, LoopOK
  <2>5. phase = "handback" /\ cur \in DOMAIN runs' =>
          \A q \in DOMAIN runs' : OpenRun(q)' => runs'[q].task # runs'[cur].task
    BY DEF LoopOK, Tables, TypeOK, StoreTypeOK, OpenRun
  <2>6. phase \in {"record", "release"} /\ gateway = "up" => cur \in DOMAIN runningTasks \/ ~OpenRun(cur)'
    <3>1. OpenRun(cur)' => cur \in RunId /\ OpenRun(cur)
      BY DEF OpenRun, Tables, StoreTypeOK
    <3> QED BY <3>1 DEF LoopOK
  <2> QED BY <1>1, <2>1, <2>2, <2>3, <2>4, <2>5, <2>6 DEF LoopOK, Idle
<1> QED BY <1>2, <1>3, <1>4, <1>5, <1>6 DEF MInv

\* Steps on the tables alone.
LEMMA AloneKeeps ==
  ASSUME EInv, NEW S \in SUBSET RunId, Tables(S),
         \A r \in S : protocol[r] # "token" /\ ~Started(r) /\ group[r] # "gate",
         UNCHANGED <<halt, interrupted, loopVars, workerVars, watchVars, osVars>>, Proceeds
  PROVE  MInv'
<1> USE HasMemory
<1>1. /\ UNCHANGED <<phase, claim, batch, cur, left, runningTasks, activeBatchIds>>
      /\ UNCHANGED <<childPid, protocol, group, todo, dying, halt, interrupted>>
  BY DEF loopVars, workerVars, watchVars, osVars
<1>2. \A r \in S : r \notin DOMAIN runningTasks /\ (phase = "spawn" => r # cur)
  BY OwnEntry DEF EntryOK, LoopOK
<1>3. TypeOK'
  BY <1>1 DEF TypeOK, Tables, Proceeds
<1>4. HaltOK'
  BY <1>1 DEF HaltOK, LoopOK, Idle, Proceeds
<1>5. WatchOK'
  BY <1>1 DEF WatchOK, Tables, Proceeds
<1> QED BY <1>1, <1>2, <1>3, <1>4, <1>5, AsideKeeps

\* When the Gateway's process is gone, only rows and process groups are left.
LEMMA VanishKeeps ==
  ASSUME EInv, Vanish
  PROVE  MInv'
<1> USE HasMemory
<1>1. UNCHANGED <<tasks, runs, nextTask, nextRun, childPid, protocol, group>>
  BY DEF Vanish, storeVars, osVars
<1>2. Idle' /\ gateway' = "down"
  BY DEF Vanish, Idle
<1>3. TypeOK'
  BY <1>1, <1>2 DEF Idle, TypeOK, StoreTypeOK, Phases
<1>4. FreshOK' /\ GroupsOK'
  BY <1>1 DEF FreshOK, GroupsOK, Started, Executing, OpenRun
<1>5. EntriesOK' /\ HaltOK'
  BY <1>2 DEF EntriesOK, HaltOK, Idle
<1>6. BatchesOK' /\ WatchOK'
  BY <1>2, StoreConstants DEF BatchesOK, BatchesHeld, WatchOK, Idle
<1>7. LoopOK'
  BY <1>2 DEF LoopOK, Idle
<1> QED BY <1>3, <1>4, <1>5, <1>6, <1>7 DEF MInv

\* What a process group does of its own keeps what the Worker believes of it.
LEMMA BecomesKeeps ==
  ASSUME EInv, NEW r \in RunId, NEW from, NEW to, Becomes(r, from, to),
         <<from, to>> \in {<<"gate", "gone">>, <<"told", "work">>, <<"told", "gone">>, <<"work", "drained">>,
                           <<"work", "loose">>, <<"loose", "gone">>, <<"drained", "gone">>, <<"killed", "gone">>}
  PROVE  MInv'
<1> USE HasMemory
<1>1. /\ UNCHANGED <<tasks, runs, nextTask, nextRun, childPid, protocol>>
      /\ UNCHANGED <<phase, claim, batch, cur, left, runningTasks, activeBatchIds>>
      /\ UNCHANGED <<todo, dying, halt, interrupted, gateway>>
  BY DEF Becomes, storeVars, memory, loopVars, workerVars, watchVars, stopVars
<1>2. \A q \in RunId : OpenRun(q)' <=> OpenRun(q)
  BY <1>1 DEF OpenRun
<1>3. /\ group[r] = from /\ group'[r] = to /\ group' \in [RunId -> Groups]
      /\ \A q \in RunId \ {r} : group'[q] = group[q]
  BY DEF Becomes, TypeOK, Groups
<1>4. TypeOK'
  BY <1>1, <1>3 DEF TypeOK, StoreTypeOK
<1>5. FreshOK' /\ GroupsOK'
  BY <1>1, <1>2, <1>3 DEF FreshOK, GroupsOK, Started, Executing
<1>6. EntriesOK'
  <2> SUFFICES ASSUME NEW q \in DOMAIN runningTasks PROVE EntryOK(q)'
    BY <1>1 DEF EntriesOK
  <2>1. EntryOK(q) /\ q \in RunId
    BY DEF EntriesOK, TypeOK
  <2> QED BY <1>1, <1>2, <1>3, <2>1 DEF EntryOK
<1>7. BatchesOK'
  BY <1>1 DEF BatchesOK, BatchesHeld
<1>8. LoopOK'
  <2>1. Idle' <=> Idle
    BY <1>1 DEF Idle
  <2> QED BY <1>1, <1>3, <2>1 DEF LoopOK, OpenRun
<1>9. HaltOK'
  BY <1>1, <1>3 DEF HaltOK, TypeOK
<1>10. WatchOK'
  BY <1>1, <1>2 DEF WatchOK
<1> QED BY <1>4, <1>5, <1>6, <1>7, <1>8, <1>9, <1>10 DEF MInv

-----------------------------------------------------------------------------
(* Steps that touch one entry and its group.                               *)

\* A group ends by SIGTERM before it guards anything, or is killed after.
Signalled(g, h) ==
  \/ h = g
  \/ g \in {"gate", "told"} /\ h = "gone"
  \/ g \in {"told", "work", "drained", "killed"} /\ h = "killed"

Touches(r, e, g) ==
  /\ runningTasks' = [runningTasks EXCEPT ![r] = e]
  /\ group' = [group EXCEPT ![r] = g]
  /\ Fits(r, e, g) /\ Signalled(group[r], g)

\* An entry is changed together with its group, beside the loop or by it.
LEMMA TouchKeeps ==
  ASSUME EInv, NEW r \in DOMAIN runningTasks, NEW e, NEW g, Touches(r, e, g),
         UNCHANGED <<storeVars, claim, batch, activeBatchIds, childPid, protocol, watchVars, stopVars>>,
         left' \subseteq RunId,
         \/ UNCHANGED <<phase, cur>>
         \/ phase \in {"cancels", "quarantines"} /\ phase' = phase /\ cur' = r
         \/ phase = "abort" /\ phase' = "aborting" /\ cur' = cur /\ cur = r,
         e.term = "shutdown" => halt \in {"kill", "close"},
         e.term = "cancel" => tasks[e.task].status = "cancelled",
         g = "gate" /\ e.term = "none" => r = cur' /\ phase' \in {"record", "release", "abort"}
  PROVE  MInv'
<1> USE HasMemory DEF Touches, Fits
<1>1. /\ UNCHANGED <<tasks, runs, nextTask, nextRun, childPid, protocol, claim, batch, activeBatchIds>>
      /\ UNCHANGED <<todo, dying, halt, interrupted, gateway>>
  BY DEF storeVars, watchVars, stopVars
<1>2. \A q \in RunId : OpenRun(q)' <=> OpenRun(q)
  BY <1>1 DEF OpenRun
<1>3. /\ r \in RunId /\ EntryOK(r)
      /\ group'[r] = g /\ group' \in [RunId -> Groups]
      /\ \A q \in RunId \ {r} : group'[q] = group[q]
  BY DEF TypeOK, EntriesOK
<1>4. /\ DOMAIN runningTasks' = DOMAIN runningTasks /\ runningTasks'[r] = e
      /\ \A q \in DOMAIN runningTasks \ {r} : runningTasks'[q] = runningTasks[q]
      /\ runningTasks' \in [DOMAIN runningTasks -> Entry]
      /\ \A q \in DOMAIN runningTasks : runningTasks'[q].batch = runningTasks[q].batch
  BY DEF TypeOK
<1>5. OpenRun(r) /\ r < nextRun /\ protocol[r] = "token"
  BY <1>3 DEF EntryOK, TableFacts, OpenRun
<1>6. TypeOK'
  <2>1. phase' \in Phases /\ cur' \in RunId \cup {0}
    BY <1>3 DEF TypeOK, Phases
  <2> QED BY <1>1, <1>3, <1>4, <2>1 DEF TypeOK, StoreTypeOK
<1>7. FreshOK'
  BY <1>1, <1>3, <1>5 DEF FreshOK, TypeOK, StoreTypeOK, RunId
<1>8. GroupsOK'
  BY <1>1, <1>2, <1>3, <1>5 DEF GroupsOK, Started, Executing, Signalled
<1>9. EntriesOK'
  <2> SUFFICES ASSUME NEW q \in DOMAIN runningTasks PROVE EntryOK(q)'
    BY <1>4 DEF EntriesOK
  <2>1. EntryOK(q) /\ q \in RunId
    BY DEF EntriesOK, TypeOK
  <2>2. CASE q = r
    BY <1>1, <1>2, <1>3, <1>4, <1>5, <2>2 DEF EntryOK
  <2>3. CASE q # r
    <3>1. group[q] = "gate" /\ runningTasks[q].term = "none" => q = cur' /\ phase' \in {"record", "release", "abort"}
      BY <2>1, <2>3 DEF EntryOK
    <3> QED BY <1>1, <1>2, <1>3, <1>4, <2>1, <2>3, <3>1 DEF EntryOK
  <2> QED BY <2>2, <2>3
<1>10. BatchesOK'
  <2>1. batch # NoBatch => phase' \in {"claimed", "spawn", "handback"}
    BY DEF BatchesOK
  <2> QED BY <1>1, <1>4, <2>1 DEF BatchesOK, BatchesHeld
<1>11. gateway \in {"up", "stopping"}
  BY DEF LoopOK, Idle, TypeOK
<1>12. LoopOK'
  BY <1>1, <1>2, <1>3, <1>4, <1>11 DEF LoopOK, OpenRun
<1>13. HaltOK'
  BY <1>1, <1>3, <1>4 DEF HaltOK, TypeOK
<1>14. WatchOK'
  BY <1>1, <1>2, <1>4 DEF WatchOK
<1> QED BY <1>6, <1>7, <1>8, <1>9, <1>10, <1>12, <1>13, <1>14 DEF MInv

-----------------------------------------------------------------------------
(* Steps of the loop that start nothing.                                   *)

\* The loop goes on, starting nothing; it may close the run it was to start.
LEMMA LoopKeeps ==
  ASSUME EInv, NEW S \in SUBSET {cur}, Tables(S), S # {} => phase = "spawn",
         UNCHANGED <<runningTasks, osVars, watchVars, stopVars>>,
         phase' # "spawn",
         halt \in {"kill", "close"} => phase' = "idle",
         \A r \in DOMAIN runningTasks : group[r] = "gate" /\ runningTasks[r].term = "none"
                                         => r = cur' /\ phase' \in {"record", "release", "abort"},
         TypeOK', BatchesOK', LoopOK'
  PROVE  MInv'
<1> USE HasMemory
<1>1. UNCHANGED <<childPid, protocol, group, todo, dying, halt, interrupted, gateway, runningTasks>>
  BY DEF osVars, watchVars, stopVars
<1>2. ASSUME NEW r \in S
      PROVE  r = cur /\ r \in RunId /\ r \notin DOMAIN runningTasks /\ group[r] = "none" /\ protocol[r] = "token"
  BY <1>2 DEF LoopOK
<1>3. FreshOK'
  BY <1>1 DEF FreshOK, Tables
<1>4. GroupsOK'
  BY <1>1, <1>2 DEF GroupsOK, Tables, Started, Executing
<1>5. EntriesOK'
  <2> SUFFICES ASSUME NEW r \in DOMAIN runningTasks PROVE EntryOK(r)'
    BY <1>1 DEF EntriesOK
  <2>1. EntryOK(r) /\ r \in RunId /\ r \notin S
    BY <1>2 DEF EntriesOK, TypeOK
  <2>2. OpenRun(r)' /\ r \in DOMAIN runs' /\ runs'[r].task = runs[r].task
    BY <2>1 DEF EntryOK, Tables, OpenRun
  <2> QED BY <1>1, <2>1, <2>2 DEF EntryOK, Tables
<1>6. HaltOK'
  BY <1>1 DEF HaltOK
<1>7. WatchOK'
  BY <1>1 DEF WatchOK, Tables
<1> QED BY <1>3, <1>4, <1>5, <1>6, <1>7 DEF MInv

\* SIGKILL is for a launcher that has left the gate.
LEMMA StrikeTouches ==
  ASSUME EInv, NEW r \in DOMAIN runningTasks, NEW e, NEW signal \in {"SIGTERM", "SIGKILL"},
         Fits(r, e, group[r]),
         signal = "SIGKILL" => group[r] # "gate",
         Strike(r, e, signal)
  PROVE  \E f \in Entry, g \in Groups : Touches(r, f, g) /\ f.term = e.term
<1> USE OwnEntry
<1>1. CASE Proven(e) \/ group[r] = "gone"
  <2> DEFINE f == Settling(e, "failed")
  <2>1. group[r] = "gone"
    BY <1>1 DEF Proven, Fits
  <2>2. f \in Entry /\ f.term = e.term /\ f.settle = "failed" /\ f.kill = "no"
    BY DEF Settling, Entry, Fits
  <2>3. Fits(r, f, group[r])
    BY <2>1, <2>2 DEF Settling, Entry, Fits
  <2>4. CASE Put(r, f) /\ UNCHANGED group
    BY <2>2, <2>3, <2>4 DEF Put, Touches, Signalled
  <2>5. CASE ~Proven(e) /\ Put(r, [e EXCEPT !.kill = "no"]) /\ UNCHANGED group
    <3>1. [e EXCEPT !.kill = "no"] \in Entry /\ Fits(r, [e EXCEPT !.kill = "no"], group[r])
      BY DEF Entry, Fits
    <3>2. [e EXCEPT !.kill = "no"].term = e.term
      BY DEF Entry, Fits
    <3> QED BY <2>5, <3>1, <3>2 DEF Put, Touches, Signalled
  <2> HIDE DEF f
  <2>6. group[r] \notin LeaderAlive
    BY <2>1 DEF LeaderAlive
  <2> QED BY <2>4, <2>5, <2>6 DEF Strike, f
<1>2. CASE ~Proven(e) /\ group[r] \in LeaderAlive /\ Put(r, [e EXCEPT !.kill = signal])
           /\ group' = [group EXCEPT ![r] = Struck(@, signal)]
  <2> DEFINE f == [e EXCEPT !.kill = signal]
             g == Struck(group[r], signal)
  <2>1. /\ f \in Entry /\ f.term = e.term /\ f.settle = e.settle /\ f.drained = e.drained /\ f.closed = e.closed
        /\ f.task = e.task /\ f.batch = e.batch
    BY DEF Entry, Fits
  <2>2. ~e.closed /\ e.settle = "no" /\ g \in Groups /\ Signalled(group[r], g) /\ g # "gate"
    BY <1>2 DEF Fits, LeaderAlive, Struck, Groups, Signalled
  <2>3. e.drained => g \in {"drained", "killed", "gone"}
    BY <1>2 DEF Fits, Struck
  <2>4. runningTasks' = [runningTasks EXCEPT ![r] = f] /\ group' = [group EXCEPT ![r] = g]
    BY <1>2 DEF Put
  <2> HIDE DEF f, g
  <2>5. Fits(r, f, g)
    BY <2>1, <2>2, <2>3 DEF Fits
  <2> QED BY <2>1, <2>2, <2>4, <2>5 DEF Touches
<1>3. CASE Put(r, [e EXCEPT !.kill = "no"]) /\ UNCHANGED group
  <2>1. [e EXCEPT !.kill = "no"] \in Entry /\ Fits(r, [e EXCEPT !.kill = "no"], group[r])
    BY DEF Entry, Fits
  <2>2. [e EXCEPT !.kill = "no"].term = e.term
    BY DEF Entry, Fits
  <2> QED BY <1>3, <2>1, <2>2 DEF Put, Touches, Signalled
<1> QED BY <1>1, <1>2, <1>3 DEF Strike

\* A termination changes its entry and signals its group, no other.
LEMMA TerminateTouches ==
  ASSUME EInv, NEW r \in DOMAIN runningTasks,
         NEW kind \in {"cancel", "failure", "shutdown"}, NEW signal \in {"SIGTERM", "SIGKILL"},
         signal = "SIGKILL" => group[r] # "gate",
         Terminate(r, kind, signal)
  PROVE  \E e \in Entry, g \in Groups :
            /\ Touches(r, e, g)
            /\ e.term \in {runningTasks[r].term, kind}
            /\ g = "gate" => e.term # "none"
<1> USE OwnEntry
<1>1. CASE runningTasks[r].settle # "no" \/ runningTasks[r].kill # "no"
  <2>1. group[r] # "gate"
    BY <1>1 DEF Fits
  <2>2. UNCHANGED <<runningTasks, group>>
    BY <1>1 DEF Terminate
  <2>3. Touches(r, runningTasks[r], group[r])
    BY <2>2 DEF Touches, Signalled
  <2> QED BY <2>1, <2>3
<1>2. CASE runningTasks[r].settle = "no" /\ runningTasks[r].kill = "no"
  <2> DEFINE e == [runningTasks[r] EXCEPT !.term = IF @ = "none" THEN kind ELSE @, !.quarantined = TRUE]
  <2>1. /\ e \in Entry /\ e.term \in {runningTasks[r].term, kind} /\ e.term # "none" /\ e.settle = "no"
        /\ e.kill = "no" /\ e.drained = runningTasks[r].drained /\ e.closed = runningTasks[r].closed
        /\ e.task = runningTasks[r].task /\ e.batch = runningTasks[r].batch
    BY <1>2 DEF Entry
  <2>2. Strike(r, e, signal)
    BY <1>2 DEF Terminate
  <2> HIDE DEF e
  <2>3. Fits(r, e, group[r])
    BY <2>1 DEF Fits
  <2>4. PICK f \in Entry, g \in Groups : Touches(r, f, g) /\ f.term = e.term
    BY <2>1, <2>2, <2>3, StrikeTouches
  <2> QED BY <2>1, <2>4
<1> QED BY <1>1, <1>2

\* What goes on with an entry, but for its commit.
LEMMA EntryKeeps ==
  ASSUME EInv, NEW r \in DOMAIN runningTasks,
         KillSucceeds(r) \/ KillEscalates(r) \/ KillFails(r) \/ DrainProof(r) \/ ChildClose(r) \/ Timeout(r)
  PROVE  MInv'
<1> USE OwnEntry
<1>1. /\ UNCHANGED <<storeVars, claim, batch, activeBatchIds, childPid, protocol, watchVars, stopVars>>
      /\ UNCHANGED <<phase, cur, left>> /\ left \subseteq RunId
  BY HasMemory DEF KillSucceeds, KillEscalates, KillFails, DrainProof, ChildClose, Timeout, osVars, loopVars, TypeOK
<1>2. ASSUME NEW e \in Entry, NEW g \in Groups, Touches(r, e, g),
             e.term \in {runningTasks[r].term, "failure"},
             g = "gate" => group[r] = "gate" /\ e.term = runningTasks[r].term
      PROVE  MInv'
  <2>1. /\ e.term = "shutdown" => halt \in {"kill", "close"}
        /\ e.term = "cancel" => tasks[e.task].status = "cancelled"
        /\ g = "gate" /\ e.term = "none" => r = cur' /\ phase' \in {"record", "release", "abort"}
    BY <1>1, <1>2 DEF EntryOK, Touches, Fits
  <2> QED BY <1>1, <1>2, <2>1, TouchKeeps
<1>3. CASE KillSucceeds(r)
  <2> DEFINE e == Settling(runningTasks[r], "failed")
  <2>1. e \in Entry /\ e.term = runningTasks[r].term
    BY DEF Settling, Entry
  <2>2. group[r] = "gone" /\ Fits(r, e, group[r])
    BY <1>3 DEF KillSucceeds, Settling, Entry, Fits
  <2>3. Touches(r, e, group[r])
    BY <1>3, <2>2 DEF KillSucceeds, Put, osVars, Touches, Signalled
  <2> HIDE DEF e
  <2> QED BY <1>2, <2>1, <2>2, <2>3
<1>4. CASE KillEscalates(r)
  <2>1. Strike(r, runningTasks[r], "SIGKILL") /\ group[r] # "gate"
    BY <1>4 DEF KillEscalates, Fits
  <2>2. PICK e \in Entry, g \in Groups : Touches(r, e, g) /\ e.term = runningTasks[r].term
    BY <2>1, StrikeTouches
  <2>3. g # "gate"
    BY <2>1, <2>2 DEF Touches, Signalled
  <2> QED BY <1>2, <2>2, <2>3
<1>5. CASE KillFails(r)
  <2> DEFINE e == [runningTasks[r] EXCEPT !.kill = "no"]
  <2>1. e \in Entry /\ e.term = runningTasks[r].term /\ Fits(r, e, group[r])
    BY DEF Entry, Fits
  <2>2. Touches(r, e, group[r])
    BY <1>5, <2>1 DEF KillFails, Put, osVars, Touches, Signalled
  <2> HIDE DEF e
  <2> QED BY <1>2, <2>1, <2>2
<1>6. CASE DrainProof(r)
  <2> DEFINE e == [runningTasks[r] EXCEPT !.drained = TRUE]
  <2>1. e \in Entry /\ e.term = runningTasks[r].term /\ Fits(r, e, group[r])
    BY <1>6 DEF DrainProof, Entry, Fits
  <2>2. Touches(r, e, group[r])
    BY <1>6, <2>1 DEF DrainProof, Put, osVars, Touches, Signalled
  <2> HIDE DEF e
  <2> QED BY <1>2, <2>1, <2>2
<1>7. CASE ChildClose(r)
  <2> DEFINE e == [runningTasks[r] EXCEPT !.closed = TRUE]
  <2>1. e \in Entry /\ e.term = runningTasks[r].term /\ e.settle = runningTasks[r].settle /\ e.drained = runningTasks[r].drained
    BY DEF Entry
  <2>2. group[r] \in {"loose", "gone"} /\ UNCHANGED group
    BY <1>7 DEF ChildClose, osVars
  <2>3. Fits(r, e, group[r])
    BY <2>2 DEF Entry, Fits
  <2>4. \/ runningTasks' = [runningTasks EXCEPT ![r] = e]
        \/ \E outcome \in {"done", "failed"} :
              /\ runningTasks' = [runningTasks EXCEPT ![r] = Settling(e, outcome)]
              /\ e.drained \/ group[r] = "gone"
        \/ runningTasks' = [runningTasks EXCEPT ![r] = [e EXCEPT !.term = "failure", !.quarantined = TRUE]]
    BY <1>7 DEF ChildClose, Put, SeenGone
  <2> HIDE DEF e
  <2>5. ASSUME NEW outcome \in {"done", "failed"}, e.drained \/ group[r] = "gone"
        PROVE  Settling(e, outcome) \in Entry /\ Settling(e, outcome).term = e.term /\ Fits(r, Settling(e, outcome), group[r])
    <3>1. group[r] = "gone"
      BY <2>2, <2>3, <2>5 DEF Fits
    <3> QED BY <2>1, <2>3, <3>1 DEF Settling, Entry, Fits
  <2>6. LET f == [e EXCEPT !.term = "failure", !.quarantined = TRUE]
        IN f \in Entry /\ f.term = "failure" /\ Fits(r, f, group[r])
    BY <2>1, <2>3 DEF Entry, Fits
  <2>7. \E f \in Entry : Touches(r, f, group[r]) /\ f.term \in {runningTasks[r].term, "failure"}
    BY <2>1, <2>2, <2>3, <2>4, <2>5, <2>6 DEF Touches, Signalled
  <2> QED BY <1>2, <2>2, <2>7
<1>8. CASE Timeout(r)
  <2>1. group[r] # "gate"
    BY <1>8 DEF Timeout, EntryOK
  <2>2. PICK e \in Entry, g \in Groups : /\ Touches(r, e, g)
                                         /\ e.term \in {runningTasks[r].term, "failure"}
                                         /\ g = "gate" => e.term # "none"
    BY <1>8, <2>1, TerminateTouches DEF Timeout
  <2>3. g # "gate"
    BY <2>1, <2>2 DEF Touches, Signalled
  <2> QED BY <1>2, <2>2, <2>3
<1> QED BY <1>3, <1>4, <1>5, <1>6, <1>7, <1>8

\* The loop goes on without a start under way.
LEMMA QuietKeeps ==
  ASSUME EInv, Tables({}),
         UNCHANGED <<claim, batch, activeBatchIds, runningTasks, osVars, watchVars, stopVars>>,
         gateway \in {"up", "stopping"},
         phase \notin {"claimed", "spawn", "handback"},
         phase' \in {"idle", "cancels", "quarantines", "look", "slot", "abort", "aborting"},
         halt \in {"kill", "close"} => phase' = "idle",
         \/ phase \notin {"record", "release", "abort"}
         \/ phase' = "abort" /\ cur' = cur
         \/ cur \notin DOMAIN runningTasks,
         cur' \in RunId \cup {0}, left' \subseteq RunId
  PROVE  MInv'
<1> USE HasMemory
<1>1. TypeOK'
  BY DEF TypeOK, Tables, Phases, osVars, watchVars, stopVars
<1>2. BatchesOK'
  BY DEF BatchesOK, BatchesHeld
<1>3. LoopOK'
  BY DEF LoopOK, stopVars
<1>4. \A r \in DOMAIN runningTasks : group[r] = "gate" /\ runningTasks[r].term = "none"
         => r = cur' /\ phase' \in {"record", "release", "abort"}
  BY DEF EntriesOK, EntryOK
<1> QED BY <1>1, <1>2, <1>3, <1>4, LoopKeeps

\* The terminations of the loop and of the shutdown.
LEMMA TerminationKeeps ==
  ASSUME EInv, Reconcile \/ Abort \/ StopEntry
  PROVE  MInv'
<1> USE HasMemory
<1>1. UNCHANGED <<storeVars, claim, batch, activeBatchIds, childPid, protocol, watchVars, stopVars>>
  BY DEF Reconcile, Abort, StopEntry
<1>2. left' \subseteq RunId
  BY DEF Reconcile, Abort, StopEntry, TypeOK
<1>3. StopEntry => phase = "idle" /\ halt = "kill" /\ gateway = "stopping"
  BY DEF StopEntry, HaltOK
<1>4. phase # "idle" => gateway \in {"up", "stopping"} /\ halt \notin {"kill", "close"}
  BY DEF LoopOK, Idle, TypeOK, HaltOK
<1>5. CASE UNCHANGED <<runningTasks, group>> /\ (Abort => cur \notin DOMAIN runningTasks)
  <2>1. Tables({})
    BY <1>1 DEF Tables, storeVars, TableFacts, StoreTypeOK, OpenRun
  <2>2. UNCHANGED osVars
    BY <1>1, <1>5 DEF osVars
  <2>3. CASE Reconcile
    <3>1. phase \in {"cancels", "quarantines"} /\ phase' = phase /\ cur' \in RunId \cup {0}
      BY <2>3 DEF Reconcile, TypeOK
    <3> QED BY <1>1, <1>2, <1>4, <1>5, <2>1, <2>2, <3>1, QuietKeeps
  <2>4. CASE Abort
    <3>1. phase = "abort" /\ phase' = "aborting" /\ cur' = cur /\ cur \in RunId \cup {0}
      BY <2>4 DEF Abort, TypeOK
    <3> QED BY <1>1, <1>2, <1>4, <1>5, <2>1, <2>2, <2>4, <3>1, QuietKeeps
  <2>5. CASE StopEntry
    <3>1. UNCHANGED <<phase, cur>> /\ cur \in RunId \cup {0}
      BY <2>5 DEF StopEntry, TypeOK
    <3> QED BY <1>1, <1>2, <1>3, <1>5, <2>1, <2>2, <2>5, <3>1, QuietKeeps
  <2> QED BY <2>3, <2>4, <2>5
<1>6. ASSUME NEW r \in DOMAIN runningTasks,
             NEW kind \in {"cancel", "failure", "shutdown"}, Terminate(r, kind, "SIGTERM"),
             kind = "shutdown" => halt \in {"kill", "close"},
             kind = "cancel" => tasks[runningTasks[r].task].status = "cancelled",
             \/ UNCHANGED <<phase, cur>>
             \/ phase \in {"cancels", "quarantines"} /\ phase' = phase /\ cur' = r
             \/ phase = "abort" /\ phase' = "aborting" /\ cur' = cur /\ cur = r
      PROVE  MInv'
  <2>1. PICK e \in Entry, g \in Groups : /\ Touches(r, e, g)
                                         /\ e.term \in {runningTasks[r].term, kind}
                                         /\ g = "gate" => e.term # "none"
    BY <1>6, TerminateTouches
  <2>2. /\ e.term = "shutdown" => halt \in {"kill", "close"}
        /\ e.term = "cancel" => tasks[e.task].status = "cancelled"
    BY <1>6, <2>1, OwnEntry DEF EntryOK, Touches, Fits
  <2> QED BY <1>1, <1>2, <1>6, <2>1, <2>2, TouchKeeps
<1>7. CASE Reconcile
  <2>1. PICK r \in left :
          IF r \in DOMAIN runningTasks /\ Doomed(r)
          THEN /\ Terminate(r, IF phase = "cancels" THEN "cancel" ELSE runningTasks[r].term, "SIGTERM")
               /\ cur' = r
          ELSE UNCHANGED <<runningTasks, group>> /\ cur' = 0
    BY <1>7 DEF Reconcile
  <2>2. phase \in {"cancels", "quarantines"} /\ phase' = phase
    BY <1>7 DEF Reconcile
  <2>3. CASE r \in DOMAIN runningTasks /\ Doomed(r)
    <3> DEFINE kind == IF phase = "cancels" THEN "cancel" ELSE runningTasks[r].term
    <3>1. runningTasks[r].term \in {"none", "cancel", "failure", "shutdown"} /\ EntryOK(r) /\ r \in RunId
      BY <2>3, OwnEntry DEF Entry
    <3>2. kind \in {"cancel", "failure", "shutdown"}
      BY <2>2, <2>3, <3>1 DEF Doomed
    <3>3. kind = "shutdown" => halt \in {"kill", "close"}
      BY <3>1 DEF EntryOK
    <3>4. kind = "cancel" => tasks[runningTasks[r].task].status = "cancelled"
      BY <2>3, <3>1 DEF EntryOK, Doomed
    <3>5. Terminate(r, kind, "SIGTERM") /\ cur' = r
      BY <2>1, <2>3
    <3> HIDE DEF kind
    <3> QED BY <1>6, <2>2, <2>3, <3>2, <3>3, <3>4, <3>5
  <2>4. CASE ~(r \in DOMAIN runningTasks /\ Doomed(r))
    <3>1. ~Abort
      BY <2>2 DEF Abort
    <3> QED BY <1>5, <2>1, <2>4, <3>1
  <2> QED BY <2>3, <2>4
<1>8. CASE Abort
  BY <1>5, <1>6, <1>8 DEF Abort
<1>9. CASE StopEntry
  <2>1. ~Abort /\ UNCHANGED <<phase, cur>> /\ halt \in {"kill", "close"}
    BY <1>3, <1>9 DEF Abort, StopEntry
  <2> QED BY <1>5, <1>6, <1>9, <2>1 DEF StopEntry
<1> QED BY <1>7, <1>8, <1>9

\* While the loop works, the shutdown is not past it.
LEMMA InLoop ==
  ASSUME EInv, phase # "idle"
  PROVE  gateway \in {"up", "stopping"} /\ halt \notin {"kill", "close"} /\ interrupted = {}
BY HasMemory DEF LoopOK, Idle, TypeOK, HaltOK

\* The cycle begins, reads, looks, or ends without a claim.
LEMMA PollKeeps ==
  ASSUME EInv, Tables({}), Poll \/ Reconciled \/ Look \/ PollEnds \/ StartLost \/ Aborted
  PROVE  MInv'
<1> USE HasMemory
<1>1. /\ UNCHANGED <<claim, batch, activeBatchIds, runningTasks, osVars, watchVars, stopVars>>
      /\ gateway \in {"up", "stopping"} /\ (halt \in {"kill", "close"} => phase' = "idle")
  BY InLoop DEF Poll, Reconciled, Look, PollEnds, StartLost, Aborted, workerVars, HaltOK
<1>2. /\ phase \notin {"claimed", "spawn", "handback"}
      /\ phase' \in {"idle", "cancels", "quarantines", "look", "slot", "abort", "aborting"}
      /\ \/ phase \notin {"record", "release", "abort"}
         \/ phase' = "abort" /\ cur' = cur
      /\ cur' \in RunId \cup {0} /\ left' \subseteq RunId
  BY DEF Poll, Reconciled, Look, PollEnds, StartLost, Aborted, TypeOK
<1> QED BY <1>1, <1>2, QuietKeeps

\* A start is given up.
LEMMA ReleaseKeeps ==
  ASSUME EInv, NEW S \in SUBSET {cur}, Tables(S), S # {} => phase = "spawn",
         NEW next \in {"idle", "look"}, Release(next), phase \in {"claimed", "spawn", "handback"},
         UNCHANGED <<left, runningTasks, osVars, watchVars, stopVars>>
  PROVE  MInv'
<1> USE HasMemory
<1>1. gateway \in {"up", "stopping"} /\ halt \notin {"kill", "close"}
  BY InLoop
<1>2. phase' = next /\ claim' = 0 /\ cur' = 0 /\ batch' = NoBatch /\ activeBatchIds' = activeBatchIds \ {batch}
  BY DEF Release
<1>3. TypeOK'
  BY <1>2 DEF TypeOK, Tables, Phases, osVars, watchVars, stopVars
<1>4. BatchesOK'
  BY <1>2, StoreConstants DEF BatchesOK, BatchesHeld
<1>5. LoopOK'
  BY <1>1, <1>2 DEF LoopOK, stopVars
<1>6. \A r \in DOMAIN runningTasks : ~(group[r] = "gate" /\ runningTasks[r].term = "none")
  BY DEF EntriesOK, EntryOK
<1> QED BY <1>1, <1>2, <1>3, <1>4, <1>5, <1>6, LoopKeeps

\* A start is given up before there is a launcher.
LEMMA GiveUpKeeps ==
  ASSUME EInv, [Next]_vars, HandBackClaim \/ StartFails \/ HandBack \/ Reject \/ SpawnFails
  PROVE  MInv'
<1> USE HasMemory
<1>1. /\ phase \in {"claimed", "spawn", "handback"}
      /\ UNCHANGED <<left, runningTasks, osVars, watchVars, stopVars>>
      /\ \E next \in {"idle", "look"} : Release(next)
  BY DEF HandBackClaim, StartFails, HandBack, Reject, SpawnFails
<1>2. CASE Tables({})
  BY <1>1, <1>2, ReleaseKeeps
<1>3. CASE UNCHANGED storeVars
  BY <1>2, <1>3, TablesAlone
<1>4. CASE HandBackClaim \/ StartFails \/ HandBack
  <2>1. UNCHANGED <<runs, nextRun>>
    BY <1>4 DEF HandBackClaim, StartFails, HandBack, ResetToPending, Fail, storeVars
  <2> QED BY <1>2, <2>1, RunsUntouched, TablesStep
<1>5. ASSUME phase = "spawn", FailRun(cur, TRUE) \/ FailRun(cur, FALSE) \/ CloseRun(cur)
      PROVE  MInv'
  <2>1. Unopened({cur})
    BY <1>5, RunEnds DEF TableFacts
  <2>2. Tables({cur})
    BY <2>1, TablesStep
  <2> QED BY <1>1, <1>5, <2>2, ReleaseKeeps
<1>6. CASE Reject \/ SpawnFails
  BY <1>3, <1>5, <1>6 DEF Reject, SpawnFails
<1> QED BY <1>4, <1>6

\* A run created for a Gateway that stops is closed before it has a process.
LEMMA HandBackRunKeeps ==
  ASSUME EInv, [Next]_vars, HandBackRun
  PROVE  MInv'
<1> USE HasMemory
<1>1. /\ phase = "spawn" /\ phase' = "handback" /\ gateway = "stopping" /\ CloseRun(cur)
      /\ UNCHANGED <<claim, batch, cur, left, runningTasks, activeBatchIds, osVars, watchVars, stopVars>>
  BY DEF HandBackRun, workerVars
<1>2. Unopened({cur}) /\ OpenRun(cur) /\ ~OpenRun(cur)'
  <2>1. PICK r \in RunId : r = cur
    BY <1>1 DEF LoopOK
  <2>2. Unopened({r}) /\ OpenRun(r) /\ ~OpenRun(r)'
    BY <1>1, <2>1, RunEnds DEF TableFacts
  <2> QED BY <1>1, <2>1, <2>2 DEF Unopened, OpenRun
<1>3. Tables({cur})
  BY <1>2, TablesStep
<1>4. TypeOK' /\ BatchesOK'
  BY <1>1, <1>3 DEF TypeOK, Tables, Phases, osVars, watchVars, stopVars, BatchesOK, BatchesHeld
<1>5. LoopOK'
  <2>1. ASSUME cur \in DOMAIN runs', NEW r \in DOMAIN runs', OpenRun(r)'
        PROVE  runs'[r].task # runs'[cur].task
    <3>1. r \in DOMAIN runs /\ r \in RunId /\ runs'[r].task = runs[r].task /\ runs'[cur].task = runs[cur].task
      BY <1>3, <2>1 DEF Tables, TableFacts, StoreTypeOK
    <3>2. OpenRun(r) /\ r # cur
      BY <1>1, <1>2, <1>3, <2>1, <3>1 DEF Tables, OpenRun
    <3> QED BY <1>2, <3>1, <3>2 DEF TableFacts, OpenRun
  <2> QED BY <1>1, <2>1 DEF LoopOK, stopVars
<1>6. \A r \in DOMAIN runningTasks : ~(group[r] = "gate" /\ runningTasks[r].term = "none")
  BY <1>1 DEF EntriesOK, EntryOK
<1>7. halt \notin {"kill", "close"}
  BY <1>1, InLoop
<1> QED BY <1>1, <1>3, <1>4, <1>5, <1>6, <1>7, LoopKeeps

\* A claim takes a task whose batch no entry holds.
LEMMA DispatchKeeps ==
  ASSUME EInv, [Next]_vars, Dispatch
  PROVE  MInv'
<1> USE HasMemory
<1>1. PICK t \in TaskId :
        /\ ClaimNext(t, activeBatchIds)
        /\ claim' = t /\ batch' = tasks[t].batch
        /\ activeBatchIds' = activeBatchIds \cup Normalized(tasks[t].batch)
  BY DEF Dispatch
<1>2. /\ phase = "slot" /\ phase' = "claimed" /\ gateway = "up"
      /\ UNCHANGED <<cur, left, runningTasks, osVars, watchVars, stopVars>>
  BY DEF Dispatch
<1>3. Tables({})
  BY <1>1, RunsUntouched, TablesStep DEF ClaimNext
<1>4. /\ batch' \in Batches \cup {NoBatch}
      /\ batch' # NoBatch => batch' \notin activeBatchIds
      /\ activeBatchIds' = activeBatchIds \cup ({batch'} \ {NoBatch})
  BY <1>1 DEF ClaimNext, Runnable, Waiting, TableFacts, StoreTypeOK, TaskRow, Normalized
<1>5. TypeOK'
  BY <1>1, <1>2, <1>3, <1>4 DEF TypeOK, Tables, Phases, osVars, watchVars, stopVars
<1>6. batch = NoBatch
  BY <1>2 DEF BatchesOK
<1>7. BatchesOK'
  <2>1. BatchesHeld'
    BY <1>2, <1>4, <1>6, StoreConstants DEF BatchesOK, BatchesHeld
  <2>2. \A r \in DOMAIN runningTasks : runningTasks[r].batch # NoBatch => runningTasks[r].batch \in activeBatchIds
    BY <1>6 DEF BatchesOK, BatchesHeld, TypeOK, Entry
  <2> QED BY <1>2, <1>4, <2>1, <2>2 DEF BatchesOK
<1>8. LoopOK'
  BY <1>2 DEF LoopOK, stopVars
<1>9. \A r \in DOMAIN runningTasks : ~(group[r] = "gate" /\ runningTasks[r].term = "none")
  BY <1>2 DEF EntriesOK, EntryOK
<1>10. halt \notin {"kill", "close"}
  BY <1>2, InLoop
<1> QED BY <1>2, <1>3, <1>5, <1>7, <1>8, <1>9, <1>10, LoopKeeps

-----------------------------------------------------------------------------
(* The start of a run.                                                     *)

\* The run is created; it has no process yet.
LEMMA StartRunKeeps ==
  ASSUME EInv, [Next]_vars, StartRun
  PROVE  MInv'
<1> USE HasMemory
<1>1. /\ phase = "claimed" /\ CreateRun(claim) /\ phase' = "spawn" /\ claim' = 0 /\ cur' = nextRun
      /\ UNCHANGED <<batch, left, runningTasks, activeBatchIds, childPid, protocol, group>>
      /\ UNCHANGED <<todo, dying, gateway, halt, interrupted>>
  BY DEF StartRun, workerVars, osVars, watchVars, stopVars
<1>2. /\ nextRun \in RunId /\ nextRun' = nextRun + 1 /\ tasks' = tasks
      /\ nextRun \in DOMAIN runs' /\ runs'[nextRun].status = "running"
      /\ \A r \in DOMAIN runs : r \in DOMAIN runs' /\ runs'[r] = runs[r] /\ r # nextRun
      /\ \A r \in DOMAIN runs' : r \in DOMAIN runs \/ r = nextRun
  BY <1>1 DEF CreateRun, TableFacts, StoreTypeOK, RunId
<1>3. \A r \in RunId : r # nextRun => (OpenRun(r)' <=> OpenRun(r))
  BY <1>2 DEF OpenRun
<1>4. StoreTypeOK'
  BY QueueKept DEF TableFacts
<1>5. /\ group[nextRun] = "none" /\ protocol[nextRun] = "token" /\ nextRun \notin childPid
  BY <1>2, <1>4 DEF FreshOK, TableFacts, StoreTypeOK, RunId
<1>6. \A r \in DOMAIN runningTasks : r \in RunId /\ r < nextRun /\ r # nextRun /\ EntryOK(r)
  <2> SUFFICES ASSUME NEW r \in DOMAIN runningTasks PROVE r \in RunId /\ r < nextRun /\ r # nextRun /\ EntryOK(r)
    OBVIOUS
  <2>1. EntryOK(r) /\ r \in RunId
    BY OwnEntry
  <2>2. r \in DOMAIN runs
    BY <2>1 DEF EntryOK, OpenRun
  <2> QED BY <1>2, <2>1, <2>2 DEF TableFacts
<1>7. TypeOK'
  BY <1>1, <1>2, <1>4 DEF TypeOK, Phases
<1>8. FreshOK'
  BY <1>1, <1>2, <1>4 DEF FreshOK, TableFacts, StoreTypeOK, RunId
<1>9. GroupsOK'
  BY <1>1, <1>3, <1>5 DEF GroupsOK, Started, Executing
<1>10. EntriesOK'
  <2> SUFFICES ASSUME NEW r \in DOMAIN runningTasks PROVE EntryOK(r)'
    BY <1>1 DEF EntriesOK
  <2>1. OpenRun(r)' /\ runs'[r] = runs[r]
    BY <1>2, <1>3, <1>6 DEF EntryOK, OpenRun
  <2>2. ~(group[r] = "gate" /\ runningTasks[r].term = "none")
    BY <1>1, <1>6 DEF EntryOK
  <2> QED BY <1>1, <1>2, <1>6, <2>1, <2>2 DEF EntryOK
<1>11. BatchesOK'
  BY <1>1 DEF BatchesOK, BatchesHeld
<1>12. LoopOK'
  <2>1. gateway \in {"up", "stopping"}
    BY <1>1, InLoop
  <2>2. OpenRun(cur)'
    BY <1>1, <1>2 DEF OpenRun
  <2>3. nextRun \notin DOMAIN runningTasks
    BY <1>6
  <2> QED BY <1>1, <1>2, <1>5, <2>1, <2>2, <2>3 DEF LoopOK
<1>13. HaltOK'
  BY <1>1, InLoop DEF HaltOK
<1>14. WatchOK'
  <2>1. ASSUME NEW r \in RunId, NEW known \in BOOLEAN, <<r, known>> \in todo
        PROVE  /\ r < nextRun' /\ r # nextRun
               /\ known => r \in childPid
               /\ ~known /\ r \in childPid => r \in DOMAIN runningTasks \/ ~OpenRun(r)'
    <3>1. r < nextRun /\ r # nextRun
      BY <1>2, <2>1 DEF WatchOK, RunId
    <3> QED BY <1>2, <1>3, <2>1, <3>1 DEF WatchOK, RunId
  <2>2. dying # 0 => dying < nextRun' /\ dying # nextRun /\ dying \notin DOMAIN runningTasks
    <3>1. dying \in RunId \cup {0}
      BY DEF TypeOK
    <3> QED BY <1>2, <3>1 DEF WatchOK, RunId
  <2> QED BY <1>1, <2>1, <2>2 DEF WatchOK
<1> QED BY <1>7, <1>8, <1>9, <1>10, <1>11, <1>12, <1>13, <1>14 DEF MInv

\* The launcher waits at its gate, and its entry holds the batch from now on.
LEMMA SpawnKeeps ==
  ASSUME EInv, [Next]_vars, Spawn
  PROVE  MInv'
<1> USE HasMemory
<1> DEFINE e == [task |-> runs[cur].task, batch |-> batch, term |-> "none", kill |-> "no",
                 quarantined |-> FALSE, drained |-> FALSE, closed |-> FALSE, settle |-> "no"]
<1>1. /\ phase = "spawn" /\ gateway = "up" /\ phase' = "record" /\ batch' = NoBatch
      /\ UNCHANGED <<tasks, runs, nextTask, nextRun, claim, cur, left, activeBatchIds, childPid, protocol>>
      /\ UNCHANGED <<todo, dying, gateway, halt, interrupted>>
      /\ group' = [group EXCEPT ![cur] = "gate"]
  BY DEF Spawn, storeVars, watchVars, stopVars
<1>2. /\ cur \in RunId /\ cur \notin DOMAIN runningTasks /\ OpenRun(cur) /\ protocol[cur] = "token"
      /\ cur < nextRun
  BY <1>1 DEF LoopOK, TableFacts, OpenRun
<1>3. /\ DOMAIN runningTasks' = DOMAIN runningTasks \cup {cur} /\ runningTasks'[cur] = e
      /\ \A r \in DOMAIN runningTasks : runningTasks'[r] = runningTasks[r]
      /\ runningTasks' = [r \in DOMAIN runningTasks \cup {cur} |-> IF r = cur THEN e ELSE runningTasks[r]]
  BY <1>2 DEF Spawn
<1>4. e \in Entry
  BY <1>2 DEF Entry, TypeOK, TableFacts, StoreTypeOK, RunRow, OpenRun
<1>5. e.task = runs[cur].task /\ e.batch = batch /\ e.term = "none" /\ e.kill = "no" /\ e.settle = "no" /\ ~e.drained /\ ~e.closed
  OBVIOUS
<1> HIDE DEF e
<1>6. \A r \in RunId : OpenRun(r)' <=> OpenRun(r)
  BY <1>1 DEF OpenRun
<1>7. /\ group' \in [RunId -> Groups] /\ group'[cur] = "gate"
      /\ \A r \in RunId : r # cur => group'[r] = group[r]
  BY <1>1, <1>2 DEF TypeOK, Groups
<1>8. TypeOK'
  BY <1>1, <1>2, <1>3, <1>4, <1>7, StoreConstants DEF TypeOK, StoreTypeOK, Phases
<1>9. FreshOK'
  BY <1>1, <1>2, <1>7 DEF FreshOK, RunId, TableFacts, StoreTypeOK
<1>10. GroupsOK'
  BY <1>1, <1>2, <1>6, <1>7 DEF GroupsOK, Started, Executing
<1>11. EntriesOK'
  <2> SUFFICES ASSUME NEW r \in DOMAIN runningTasks' PROVE EntryOK(r)'
    BY DEF EntriesOK
  <2>1. CASE r = cur
    <3>1. OpenRun(r)'
      BY <1>2, <1>6, <2>1
    <3> QED BY <1>1, <1>2, <1>3, <1>5, <1>7, <2>1, <3>1 DEF EntryOK
  <2>2. CASE r # cur
    <3>1. r \in RunId /\ EntryOK(r) /\ runningTasks'[r] = runningTasks[r]
      BY <1>3, <2>2, OwnEntry
    <3> QED BY <1>1, <1>6, <1>7, <2>2, <3>1 DEF EntryOK
  <2> QED BY <2>1, <2>2
<1>12. BatchesOK'
  <2>1. batch' = NoBatch /\ activeBatchIds' = activeBatchIds
    BY <1>1
  <2>2. \A r \in DOMAIN runningTasks' : runningTasks'[r].batch = IF r = cur THEN batch ELSE runningTasks[r].batch
    BY <1>3, <1>5
  <2>3. BatchesHeld'
    <3>1. \A b \in Batches : (b = batch \/ \E r \in DOMAIN runningTasks : runningTasks[r].batch = b)
                             <=> (b = batch' \/ \E r \in DOMAIN runningTasks' : runningTasks'[r].batch = b)
      BY <1>2, <1>3, <2>1, <2>2, StoreConstants
    <3> QED BY <2>1, <3>1 DEF BatchesOK, BatchesHeld
  <2> QED BY <1>2, <1>3, <2>1, <2>2, <2>3 DEF BatchesOK
<1>13. LoopOK'
  BY <1>1, <1>3 DEF LoopOK
<1>14. HaltOK'
  BY <1>1, InLoop DEF HaltOK
<1>15. WatchOK'
  BY <1>1, <1>2, <1>3, <1>6 DEF WatchOK
<1> QED BY <1>8, <1>9, <1>10, <1>11, <1>12, <1>13, <1>14, <1>15 DEF MInv

\* The pid is in the database before START may be sent.
LEMMA RecordPidKeeps ==
  ASSUME EInv, [Next]_vars, RecordPid
  PROVE  MInv'
<1> USE HasMemory
<1>1. /\ phase = "record" /\ phase' = "release" /\ OpenRun(cur) /\ childPid' = childPid \cup {cur}
      /\ UNCHANGED <<tasks, runs, nextTask, nextRun, claim, batch, cur, left, runningTasks, activeBatchIds>>
      /\ UNCHANGED <<protocol, group, todo, dying, gateway, halt, interrupted>>
  BY DEF RecordPid, storeVars, workerVars, watchVars, stopVars
<1>2. cur \in RunId /\ cur < nextRun
  BY <1>1 DEF TableFacts, StoreTypeOK, OpenRun
<1>3. \A r \in RunId : OpenRun(r)' <=> OpenRun(r)
  BY <1>1 DEF OpenRun
<1>4. TypeOK'
  BY <1>1, <1>2 DEF TypeOK, StoreTypeOK, Phases
<1>5. FreshOK'
  BY <1>1, <1>2 DEF FreshOK, TableFacts, StoreTypeOK, RunId
<1>6. GroupsOK'
  BY <1>1, <1>3 DEF GroupsOK, Started, Executing
<1>7. EntriesOK'
  <2> SUFFICES ASSUME NEW r \in DOMAIN runningTasks PROVE EntryOK(r)'
    BY <1>1 DEF EntriesOK
  <2> QED BY <1>1, <1>3, OwnEntry DEF EntryOK
<1>8. BatchesOK' /\ HaltOK'
  BY <1>1, InLoop DEF BatchesOK, BatchesHeld, HaltOK
<1>9. LoopOK'
  <2>1. gateway \in {"up", "stopping"}
    BY <1>1, InLoop
  <2> QED BY <1>1, <2>1 DEF LoopOK, OpenRun
<1>10. WatchOK'
  <2>1. ASSUME NEW r \in RunId, NEW known \in BOOLEAN, <<r, known>> \in todo, ~known, r \in childPid'
        PROVE  r \in DOMAIN runningTasks \/ ~OpenRun(r)
    BY <1>1, <2>1 DEF WatchOK, LoopOK
  <2> QED BY <1>1, <1>3, <2>1 DEF WatchOK
<1> QED BY <1>4, <1>5, <1>6, <1>7, <1>8, <1>9, <1>10 DEF MInv

\* START is sent to a launcher whose pid is in the database.
LEMMA SendStartKeeps ==
  ASSUME EInv, [Next]_vars, SendStart
  PROVE  MInv'
<1> USE HasMemory
<1>1. /\ phase = "release" /\ phase' \in {"look", "abort"} /\ cur' \in {0, cur}
      /\ group' = [group EXCEPT ![cur] = IF @ = "gate" THEN "told" ELSE @]
      /\ UNCHANGED <<tasks, runs, nextTask, nextRun, claim, batch, left, runningTasks, activeBatchIds>>
      /\ UNCHANGED <<protocol, childPid, todo, dying, gateway, halt, interrupted>>
  BY DEF SendStart, MayStart, storeVars, workerVars, watchVars, stopVars
<1>2. cur \in RunId /\ cur \in childPid
  BY <1>1 DEF LoopOK, TypeOK
<1>3. \A r \in RunId : OpenRun(r)' <=> OpenRun(r)
  BY <1>1 DEF OpenRun
<1>4. /\ group' \in [RunId -> Groups]
      /\ group'[cur] = IF group[cur] = "gate" THEN "told" ELSE group[cur]
      /\ \A r \in RunId : r # cur => group'[r] = group[r]
  <2>1. (IF group[cur] = "gate" THEN "told" ELSE group[cur]) \in Groups
    BY <1>2 DEF TypeOK, Groups
  <2> QED BY <1>1, <1>2, <2>1 DEF TypeOK
<1>5. TypeOK'
  BY <1>1, <1>4 DEF TypeOK, StoreTypeOK, Phases
<1>6. FreshOK'
  BY <1>1, <1>2, <1>4 DEF FreshOK, TypeOK
<1>7. GroupsOK'
  BY <1>1, <1>2, <1>3, <1>4 DEF GroupsOK, Started, Executing
<1>8. EntriesOK'
  <2> SUFFICES ASSUME NEW r \in DOMAIN runningTasks PROVE EntryOK(r)'
    BY <1>1 DEF EntriesOK
  <2>1. EntryOK(r) /\ r \in RunId
    BY OwnEntry
  <2> QED BY <1>1, <1>3, <1>4, <2>1 DEF EntryOK
<1>9. BatchesOK' /\ HaltOK'
  BY <1>1, InLoop DEF BatchesOK, BatchesHeld, HaltOK
<1>10. LoopOK'
  BY <1>1, InLoop DEF LoopOK
<1>11. WatchOK'
  BY <1>1, <1>3 DEF WatchOK
<1> QED BY <1>5, <1>6, <1>7, <1>8, <1>9, <1>10, <1>11 DEF MInv

-----------------------------------------------------------------------------
(* The end of an entry, the shutdown and the Watchdog.                     *)

\* An entry is forgotten once nothing of it is left; while the Gateway is
\* up, its run is closed.
LEMMA ForgetKeeps ==
  ASSUME EInv, NEW r \in DOMAIN runningTasks, runningTasks[r].settle # "no",
         NEW S \in SUBSET {r}, Tables(S), Forget(r),
         gateway = "up" => ~OpenRun(r)',
         UNCHANGED <<loopVars, osVars, watchVars, gateway, halt>>,
         interrupted' = interrupted \/ (interrupted' = interrupted \cup {r} /\ halt \in {"kill", "close"})
  PROVE  MInv'
<1> USE HasMemory
<1>1. /\ UNCHANGED <<phase, claim, batch, cur, left, childPid, protocol, group, todo, dying, gateway, halt>>
      /\ DOMAIN runningTasks' = DOMAIN runningTasks \ {r}
      /\ \A q \in DOMAIN runningTasks \ {r} : runningTasks'[q] = runningTasks[q]
      /\ runningTasks' = [q \in DOMAIN runningTasks \ {r} |-> runningTasks[q]]
      /\ activeBatchIds' = activeBatchIds \ {runningTasks[r].batch}
  BY DEF Forget, loopVars, osVars, watchVars
<1>2. r \in RunId /\ group[r] = "gone" /\ protocol[r] = "token" /\ OpenRun(r)
  BY OwnEntry DEF EntryOK
<1>3. TypeOK'
  BY <1>1, <1>2 DEF TypeOK, Tables
<1>4. FreshOK'
  BY <1>1 DEF FreshOK, Tables
<1>5. GroupsOK'
  BY <1>1, <1>2 DEF GroupsOK, Tables, Started, Executing
<1>6. EntriesOK'
  <2> SUFFICES ASSUME NEW q \in DOMAIN runningTasks \ {r} PROVE EntryOK(q)'
    BY <1>1 DEF EntriesOK
  <2>1. EntryOK(q) /\ q \in RunId /\ q \notin S
    BY OwnEntry
  <2>2. OpenRun(q)' /\ q \in DOMAIN runs' /\ runs'[q].task = runs[q].task
    BY <2>1 DEF EntryOK, Tables, OpenRun
  <2> QED BY <1>1, <2>1, <2>2 DEF EntryOK, Tables
<1>7. BatchesOK'
  <2>1. \A q \in DOMAIN runningTasks \ {r} :
          runningTasks[q].batch # NoBatch => runningTasks[q].batch # runningTasks[r].batch
    BY DEF BatchesOK
  <2>2. batch # NoBatch => runningTasks[r].batch # batch
    BY DEF BatchesOK
  <2>3. \A b \in Batches : b \in activeBatchIds' <=> (b = batch \/ \E q \in DOMAIN runningTasks' : runningTasks'[q].batch = b)
    BY <1>1, <2>1, <2>2, StoreConstants DEF BatchesOK, BatchesHeld
  <2>4. BatchesHeld'
    BY <1>1, <1>3, <2>3 DEF BatchesHeld, TypeOK
  <2> QED BY <1>1, <2>4 DEF BatchesOK
<1>8. gateway \in {"up", "stopping"}
  BY DEF LoopOK, Idle, TypeOK
<1>9. LoopOK'
  <2>1. phase = "spawn" => cur # r /\ OpenRun(cur)'
    BY <1>1 DEF LoopOK, Tables
  <2>2. phase = "handback" /\ cur \in DOMAIN runs' =>
          \A q \in DOMAIN runs' : OpenRun(q)' => runs'[q].task # runs'[cur].task
    BY <1>1 DEF LoopOK, Tables, TypeOK, StoreTypeOK, OpenRun
  <2>3. phase \in {"record", "release"} /\ gateway = "up" => cur \in DOMAIN runningTasks' \/ ~OpenRun(cur)'
    <3>1. CASE cur = r
      BY <1>1, <3>1 DEF OpenRun
    <3>2. CASE cur # r
      <4>1. OpenRun(cur)' => cur \in RunId /\ OpenRun(cur)
        BY <1>1 DEF OpenRun, Tables, StoreTypeOK
      <4> QED BY <1>1, <3>2, <4>1 DEF LoopOK
    <3> QED BY <3>1, <3>2
  <2> QED BY <1>1, <1>8, <2>1, <2>2, <2>3 DEF LoopOK
<1>10. HaltOK'
  BY <1>1, <1>2 DEF HaltOK
<1>11. WatchOK'
  <2>1. ASSUME NEW q \in RunId, NEW known \in BOOLEAN, <<q, known>> \in todo, ~known, q \in childPid
        PROVE  q \in DOMAIN runningTasks' \/ ~OpenRun(q)'
    BY <1>1, <2>1 DEF WatchOK, Tables
  <2> QED BY <1>1, <2>1 DEF WatchOK, Tables
<1> QED BY <1>3, <1>4, <1>5, <1>6, <1>7, <1>9, <1>10, <1>11 DEF MInv

\* The outcome is settled once the group is gone, and the entry forgotten.
LEMMA CommitKeeps ==
  ASSUME EInv, [Next]_vars, NEW r \in DOMAIN runningTasks, Commit(r) \/ GiveUp(r)
  PROVE  MInv'
<1> USE HasMemory, OwnEntry
<1>1. CASE GiveUp(r)
  <2>1. Tables({})
    BY <1>1, TablesAlone DEF GiveUp
  <2> QED BY <1>1, <2>1, ForgetKeeps DEF GiveUp, stopVars
<1>2. CASE Commit(r)
  <2>1. /\ runningTasks[r].settle # "no" /\ Forget(r)
        /\ UNCHANGED <<loopVars, osVars, watchVars, gateway, halt>>
        /\ interrupted' = interrupted \/ (interrupted' = interrupted \cup {r} /\ halt \in {"kill", "close"})
    BY <1>2 DEF Commit, EntryOK
  <2>2. \/ UNCHANGED storeVars /\ runningTasks[r].term = "shutdown"
        \/ CompleteRun(r) \/ FailRun(r, FALSE) \/ CloseRun(r)
    BY <1>2 DEF Commit, Outcome, EntryOK
  <2>3. CASE UNCHANGED storeVars /\ runningTasks[r].term = "shutdown"
    <3>1. Tables({}) /\ gateway # "up"
      BY <2>3, TablesAlone DEF EntryOK, HaltOK
    <3> QED BY <2>1, <3>1, ForgetKeeps
  <2>4. CASE CompleteRun(r) \/ FailRun(r, FALSE) \/ CloseRun(r)
    <3>1. Unopened({r}) /\ ~OpenRun(r)'
      BY <2>4, RunEnds DEF TableFacts
    <3>2. Tables({r})
      BY <3>1, TablesStep
    <3> QED BY <2>1, <3>1, <3>2, ForgetKeeps
  <2> QED BY <2>2, <2>3, <2>4
<1> QED BY <1>1, <1>2

\* The shutdown interrupts only what it has seen gone.
LEMMA StopKeeps ==
  ASSUME EInv, [Next]_vars, GatewayStop \/ GraceEnds \/ Stopped \/ Requeue
  PROVE  MInv'
<1> USE HasMemory
<1>1. UNCHANGED <<phase, claim, batch, cur, workerVars, osVars>>
  BY DEF GatewayStop, GraceEnds, Stopped, Requeue, loopVars
<1>2. CASE GatewayStop
  <2>1. /\ gateway = "up" /\ gateway' = "stopping" /\ halt' = "grace" /\ todo' = {} /\ dying = 0 /\ dying' = 0
        /\ UNCHANGED <<storeVars, left, interrupted>>
    BY <1>2 DEF GatewayStop, loopVars
  <2>2. Tables({})
    BY <2>1, TablesAlone
  <2>3. TypeOK'
    BY <1>1, <2>1, <2>2 DEF TypeOK, Tables, workerVars, osVars
  <2>4. HaltOK' /\ WatchOK'
    BY <1>1, <2>1 DEF HaltOK, WatchOK, workerVars, osVars
  <2> QED BY <1>1, <2>1, <2>2, <2>3, <2>4, AsideKeeps DEF HaltOK
<1>3. CASE GraceEnds \/ Stopped
  <2>1. /\ halt \in {"grace", "kill"} /\ halt' \in {"kill", "close"} /\ phase = "idle" /\ gateway = "stopping"
        /\ left' \in {left, DOMAIN runningTasks} /\ gateway' = gateway
        /\ UNCHANGED <<storeVars, interrupted, todo, dying>>
    BY <1>3 DEF GraceEnds, Stopped, HaltOK, watchVars, loopVars
  <2>2. Tables({})
    BY <2>1, TablesAlone
  <2>3. TypeOK'
    BY <1>1, <2>1, <2>2 DEF TypeOK, Tables, workerVars, osVars
  <2>4. HaltOK' /\ WatchOK'
    BY <1>1, <2>1, <2>2 DEF HaltOK, WatchOK, workerVars, osVars
  <2> QED BY <1>1, <2>1, <2>2, <2>3, <2>4, AsideKeeps
<1>4. CASE Requeue
  <2>1. /\ halt = "close" /\ gateway = "stopping" /\ phase = "idle"
        /\ UNCHANGED <<gateway, halt, left, todo, dying>>
    BY <1>4 DEF Requeue, HaltOK, watchVars, loopVars
  <2>2. PICK r \in interrupted : (InterruptRun(r) \/ UNCHANGED storeVars) /\ interrupted' = interrupted \ {r}
    BY <1>4 DEF Requeue
  <2>3. r \in RunId /\ group[r] = "gone" /\ r \notin DOMAIN runningTasks
    BY <2>2 DEF HaltOK, TypeOK
  <2>4. Tables({}) \/ Tables({r})
    <3>1. CASE InterruptRun(r)
      BY <3>1, RunEnds, TablesStep DEF TableFacts
    <3>2. CASE UNCHANGED storeVars
      BY <3>2, TablesAlone
    <3> QED BY <2>2, <3>1, <3>2
  <2>5. StoreTypeOK' /\ nextRun' = nextRun /\ \A q \in RunId : OpenRun(q)' => OpenRun(q)
    BY <2>4 DEF Tables
  <2>6. TypeOK'
    BY <1>1, <2>1, <2>2, <2>5 DEF TypeOK, workerVars, osVars
  <2>7. HaltOK' /\ WatchOK'
    BY <1>1, <2>1, <2>2, <2>5 DEF HaltOK, WatchOK, workerVars, osVars
  <2>8. ASSUME NEW S \in SUBSET {r}, Tables(S) PROVE MInv'
    BY <1>1, <2>1, <2>3, <2>6, <2>7, <2>8, AsideKeeps DEF Started, Executing
  <2> QED BY <2>4, <2>8
<1> QED BY <1>2, <1>3, <1>4

\* The Watchdog recovers a run only when no entry has it and nothing of it lives.
LEMMA WatchKeeps ==
  ASSUME EInv, [Next]_vars, Watchdog
  PROVE  MInv'
<1> USE HasMemory
<1>1. CASE Check \/ Skip \/ LeaveKilled
  <2>1. UNCHANGED <<storeVars, phase, claim, batch, cur, left, workerVars, osVars, gateway, halt, interrupted>>
    BY <1>1 DEF Check, Skip, LeaveKilled, loopVars, stopVars
  <2>2. gateway = "up"
    BY <1>1 DEF Check, Skip, LeaveKilled, WatchOK
  <2>3. Tables({})
    BY <2>1, TablesAlone
  <2>4. todo' \subseteq RunId \X BOOLEAN /\ dying' \in {0, dying}
    <3>1. CASE Check
      <4>1. PICK S \in SUBSET RunId : todo' = {<<r, r \in childPid>> : r \in S}
        BY <3>1 DEF Check, TableFacts, StoreTypeOK
      <4>2. \A r : (r \in childPid) \in BOOLEAN
        OBVIOUS
      <4>3. \A r \in S : <<r, r \in childPid>> \in RunId \X BOOLEAN
        BY <4>2
      <4>4. dying' = dying
        BY <3>1 DEF Check
      <4> QED BY <4>1, <4>3, <4>4
    <3>2. CASE Skip \/ LeaveKilled
      BY <3>2 DEF Skip, LeaveKilled, TypeOK
    <3> QED BY <1>1, <3>1, <3>2
  <2>5. TypeOK' /\ HaltOK'
    BY <2>1, <2>3, <2>4 DEF TypeOK, Tables, HaltOK, workerVars, osVars
  <2>6. \/ todo' \subseteq todo
        \/ \A r \in RunId, known \in BOOLEAN : <<r, known>> \in todo' =>
              /\ r < nextRun
              /\ phase = "spawn" => r # cur
              /\ known <=> r \in childPid
    BY <1>1 DEF Check, Skip, LeaveKilled, TableFacts
  <2>7. WatchOK'
    BY <2>1, <2>2, <2>3, <2>4, <2>6 DEF WatchOK, Tables, workerVars, osVars
  <2> QED BY <2>1, <2>2, <2>3, <2>5, <2>7, AsideKeeps
<1>2. ASSUME NEW r \in RunId, RecoverRun(r), r \notin DOMAIN runningTasks, gateway = "up",
             ~Started(r), ~(group[r] = "gate" /\ r \in childPid), phase = "spawn" => r # cur,
             UNCHANGED <<loopVars, workerVars, osVars, stopVars>>, todo' \subseteq todo, dying' \in {0, dying}
      PROVE  MInv'
  <2>1. Tables({r})
    BY <1>2, RunEnds, TablesStep DEF TableFacts
  <2>2. UNCHANGED <<phase, claim, batch, cur, left, workerVars, osVars, gateway, halt, interrupted>>
    BY <1>2 DEF loopVars, stopVars
  <2>3. TypeOK' /\ HaltOK'
    BY <1>2, <2>1, <2>2 DEF TypeOK, Tables, HaltOK, workerVars, osVars
  <2>4. WatchOK'
    BY <1>2, <2>1, <2>2 DEF WatchOK, Tables, workerVars, osVars
  <2> QED BY <1>2, <2>1, <2>2, <2>3, <2>4, AsideKeeps
<1>3. CASE Recover
  <2>1. PICK r \in RunId, known \in BOOLEAN :
          /\ <<r, known>> \in todo /\ Unowned(r) /\ Absent(r, known) /\ RecoverRun(r)
          /\ todo' = todo \ {<<r, known>>}
    BY <1>3 DEF Recover
  <2>2. OpenRun(r) /\ r \notin DOMAIN runningTasks /\ gateway = "up" /\ (phase = "spawn" => r # cur)
    BY <2>1 DEF RecoverRun, Unowned, WatchOK
  <2>3. ~Started(r) /\ ~(group[r] = "gate" /\ r \in childPid)
    <3>1. CASE known /\ group[r] = "gone"
      BY <3>1 DEF Started, Executing
    <3>2. CASE ~known /\ protocol[r] \in Guarded
      <4>1. r \notin childPid
        BY <2>1, <2>2, <3>2 DEF WatchOK
      <4> QED BY <3>2, <4>1 DEF GroupsOK
    <3> QED BY <2>1, <3>1, <3>2 DEF Absent, Guarded
  <2> QED BY <1>2, <1>3, <2>1, <2>2, <2>3 DEF Recover
<1>4. CASE RecoverKilled
  <2>1. /\ dying # 0 /\ dying \in RunId /\ group[dying] = "gone" /\ RecoverRun(dying) /\ dying' = 0
        /\ UNCHANGED <<todo, loopVars, workerVars, osVars, stopVars>>
    BY <1>4 DEF RecoverKilled, TypeOK
  <2>2. dying \notin DOMAIN runningTasks /\ gateway = "up" /\ (phase = "spawn" => dying # cur)
    BY <2>1 DEF WatchOK
  <2>3. ~Started(dying) /\ group[dying] # "gate"
    BY <2>1 DEF Started, Executing
  <2> QED BY <1>2, <2>1, <2>2, <2>3
<1>5. CASE KillStale
  <2>1. PICK r \in RunId : /\ <<r, TRUE>> \in todo /\ Unowned(r) /\ Identified(r)
                           /\ group' = [group EXCEPT ![r] = "killed"]
                           /\ todo' = todo \ {<<r, TRUE>>} /\ dying' = r
    BY <1>5 DEF KillStale
  <2>2. /\ UNCHANGED <<tasks, runs, nextTask, nextRun, phase, claim, batch, cur, left, childPid, protocol>>
        /\ UNCHANGED <<runningTasks, activeBatchIds, gateway, halt, interrupted>>
    BY <1>5 DEF KillStale, storeVars, loopVars, workerVars, stopVars
  <2>3. /\ r < nextRun /\ r \notin DOMAIN runningTasks /\ r \in childPid /\ protocol[r] = "token" /\ gateway = "up"
        /\ phase = "spawn" => r # cur
        /\ group[r] \in {"gate", "told", "work", "drained", "killed"}
    BY <2>1 DEF WatchOK, Unowned, Identified, LeaderAlive
  <2>4. OpenRun(r) /\ interrupted = {}
    BY <2>3 DEF GroupsOK, Started, Executing, HaltOK
  <2>5. /\ group' \in [RunId -> Groups] /\ group'[r] = "killed"
        /\ \A q \in RunId : q # r => group'[q] = group[q]
    BY <2>1 DEF TypeOK, Groups
  <2>6. \A q \in RunId : OpenRun(q)' <=> OpenRun(q)
    BY <2>2 DEF OpenRun
  <2>7. TypeOK'
    BY <2>1, <2>2, <2>5 DEF TypeOK, StoreTypeOK
  <2>8. FreshOK'
    BY <2>2, <2>3, <2>5 DEF FreshOK, RunId, TableFacts, StoreTypeOK
  <2>9. GroupsOK'
    BY <2>2, <2>3, <2>4, <2>5, <2>6 DEF GroupsOK, Started, Executing
  <2>10. EntriesOK'
    <3> SUFFICES ASSUME NEW q \in DOMAIN runningTasks PROVE EntryOK(q)'
      BY <2>2 DEF EntriesOK
    <3>1. EntryOK(q) /\ q \in RunId /\ q # r
      BY <2>3, OwnEntry
    <3> QED BY <2>2, <2>5, <2>6, <3>1 DEF EntryOK
  <2>11. BatchesOK' /\ HaltOK'
    BY <2>2, <2>4 DEF BatchesOK, BatchesHeld, HaltOK
  <2>12. LoopOK'
    BY <2>2, <2>3, <2>5, <2>6 DEF LoopOK, OpenRun
  <2>13. WatchOK'
    BY <2>1, <2>2, <2>3, <2>6 DEF WatchOK
  <2> QED BY <2>7, <2>8, <2>9, <2>10, <2>11, <2>12, <2>13 DEF MInv
<1> QED BY <1>1, <1>3, <1>4, <1>5 DEF Watchdog

-----------------------------------------------------------------------------
(* Every step keeps the invariant.                                         *)

\* Clients, time, the cleanup and the life of the Gateway.
LEMMA OutsideKeeps ==
  ASSUME EInv, [Next]_vars,
         \/ Client \/ Abandon \/ Time \/ Retention \/ GatewayStart \/ GatewayReady \/ Crash \/ Exit
         \/ UNCHANGED vars
  PROVE  MInv'
<1> USE HasMemory
<1>1. ASSUME Unopened({}), UNCHANGED <<halt, interrupted, loopVars, workerVars, watchVars, osVars>>, Proceeds
      PROVE  MInv'
  <2>1. Tables({})
    BY <1>1, TablesStep
  <2> QED BY <1>1, <2>1, AloneKeeps
<1>2. CASE Client
  <2>1. Unopened({})
    <3>1. CASE Queue!ClientDelete
      BY <3>1, SameClients, SameStore, DeletionKeeps DEF QP!ClientDelete
    <3>2. CASE Queue!ClientAdd \/ Queue!ClientUpdate \/ Queue!ClientCancel \/ Queue!ClientRetry \/ Queue!ClientRetryBatch
      <4>1. UNCHANGED <<runs, nextRun>>
        BY <3>2 DEF Queue!ClientAdd, Queue!Add, Queue!ClientUpdate, Queue!Update, Queue!ClientCancel, Queue!Cancel,
               Queue!ClientRetry, Queue!Retry, Queue!ClientRetryBatch, Queue!RetryBatch
      <4> QED BY <4>1, RunsUntouched
    <3> QED BY <1>2, <3>1, <3>2 DEF Client
  <2> QED BY <1>1, <1>2, <2>1 DEF Client, memory, stopVars, Proceeds
<1>3. CASE Abandon
  <2>1. PICK r \in RunId \ childPid : protocol[r] = "null" /\ group[r] \in {"none", "gone"} /\ CloseRun(r)
    BY <1>3 DEF Abandon
  <2>2. Tables({r})
    BY <2>1, RunEnds, TablesStep DEF TableFacts
  <2>3. UNCHANGED <<halt, interrupted, loopVars, workerVars, watchVars, osVars>> /\ Proceeds
    BY <1>3 DEF Abandon, memory, stopVars, Proceeds
  <2> QED BY <2>1, <2>2, <2>3, AloneKeeps DEF Started, Executing
<1>4. CASE Time
  BY <1>1, <1>4, RunsUntouched DEF Time, BackoffElapses, memory, stopVars, Proceeds
<1>5. CASE Retention
  <2>1. Unopened({})
    BY <1>5, DeletionKeeps DEF Retention
  <2> QED BY <1>1, <1>5, <2>1 DEF Retention, memory, stopVars, Proceeds
<1>6. CASE GatewayStart \/ GatewayReady
  BY <1>1, <1>6, RunsUntouched DEF GatewayStart, ResetOrphans, ResetToPending, GatewayReady, ResolveBlocked, Proceeds
<1>7. CASE Crash \/ Exit
  BY <1>7, VanishKeeps DEF Crash, Exit
<1>8. CASE UNCHANGED vars
  BY <1>1, <1>8, RunsUntouched DEF vars, storeVars, stopVars, Proceeds
<1> QED BY <1>2, <1>3, <1>4, <1>5, <1>6, <1>7, <1>8

\* The process groups.
LEMMA ProcessesKeep ==
  ASSUME EInv, Processes
  PROVE  MInv'
<1>1. PICK r \in RunId :
        \/ LauncherStarts(r) \/ LauncherLeaves(r) \/ TreeEnds(r)
        \/ LauncherExits(r) \/ LauncherLost(r) \/ GroupDies(r)
  BY DEF Processes
<1> QED BY <1>1, BecomesKeeps DEF LauncherStarts, LauncherLeaves, TreeEnds, LauncherExits, LauncherLost, GroupDies

\* The dispatch loop.
LEMMA CycleKeeps ==
  ASSUME EInv, [Next]_vars, Cycle
  PROVE  MInv'
<1>1. CASE Poll \/ Reconciled \/ Look \/ PollEnds \/ StartLost \/ Aborted
  <2>1. Unopened({})
    BY <1>1, RunsUntouched DEF Poll, ResetOrphans, ResetToPending, Reconciled, Look, PollEnds, StartLost, Aborted, storeVars
  <2> QED BY <1>1, <2>1, TablesStep, PollKeeps
<1> QED BY <1>1, TerminationKeeps, DispatchKeeps, GiveUpKeeps, HandBackRunKeeps, StartRunKeeps, SpawnKeeps,
           RecordPidKeeps, SendStartKeeps DEF Cycle

\* The entries.
LEMMA EntriesKeep ==
  ASSUME EInv, [Next]_vars, Entries
  PROVE  MInv'
<1>1. PICK r \in RunId :
        \/ KillSucceeds(r) \/ KillEscalates(r) \/ KillFails(r) \/ Commit(r) \/ GiveUp(r)
        \/ DrainProof(r) \/ ChildClose(r) \/ Timeout(r)
  BY DEF Entries
<1>2. r \in DOMAIN runningTasks
  BY <1>1 DEF KillSucceeds, KillEscalates, KillFails, Commit, GiveUp, DrainProof, ChildClose, Timeout
<1> QED BY <1>1, <1>2, EntryKeeps, CommitKeeps

\* Every step keeps the invariant.
LEMMA StepKeeps ==
  ASSUME EInv, [Next]_vars
  PROVE  EInv'
<1>1. QP!HInv'
  BY QueueKept
<1>2. MInv'
  BY OutsideKeeps, ProcessesKeep, CycleKeeps, EntriesKeep, WatchKeeps, StopKeeps, TerminationKeeps DEF Next, Shutdown
<1> QED BY <1>1, <1>2 DEF EInv

-----------------------------------------------------------------------------
(* The theorems.  They hold of a Gateway that finds any database and any   *)
(* processes an earlier Gateway, of this release or of an older one, may   *)
(* have left: Spec, with an empty database, is a case of it.               *)

Inherited ==
  /\ QP!HInv
  /\ gateway = "down" /\ Idle
  /\ childPid \subseteq RunId /\ protocol \in [RunId -> Protocols] /\ group \in [RunId -> Groups]
  /\ FreshOK /\ GroupsOK

LaterSpec == Inherited /\ [][Next]_vars

\* A Gateway not yet started remembers nothing that could be wrong.
LEMMA InheritedInv ==
  ASSUME Inherited
  PROVE  EInv
<1>1. TypeOK
  BY HasFacts DEF Inherited, Idle, TypeOK, TableFacts, Phases
<1>2. EntriesOK /\ HaltOK /\ LoopOK
  BY DEF Inherited, Idle, EntriesOK, HaltOK, LoopOK
<1>3. BatchesOK /\ WatchOK
  BY StoreConstants DEF Inherited, Idle, BatchesOK, BatchesHeld, WatchOK
<1> QED BY <1>1, <1>2, <1>3 DEF Inherited, EInv, MInv

\* The empty database is one a Gateway may find.
LEMMA InitInherited ==
  ASSUME Init
  PROVE  Inherited
<1>1. QP!Init
  BY DEF Init, StoreInit, Idle, QP!Init, QP!StoreInit, QueuePhase
<1>2. QP!HInv
  BY <1>1, QP!KeptInit, StoreConstants, ConcurrencyAssumption
<1>3. FreshOK /\ GroupsOK
  BY DEF Init, FreshOK, GroupsOK, Started, Executing
<1> QED BY <1>2, <1>3 DEF Init, Inherited, Protocols, Groups

\* The inductive invariant: that of the queue, and what relates the Worker's
\* memory, the Watchdog's list, the process groups and the rows.
THEOREM Invariance == LaterSpec => []EInv
BY InheritedInv, StepKeeps, PTL DEF LaterSpec

\* A Gateway that starts on an empty database is one of those.
THEOREM SpecIsLater == Spec => LaterSpec
BY InitInherited, PTL DEF Spec, LaterSpec

\* Every variable keeps its type.
THEOREM TypeCorrect == LaterSpec => []TypeOK
<1>1. EInv => TypeOK
  BY DEF EInv, MInv
<1> QED BY <1>1, Invariance, PTL

\* No run is closed while a process of its group may be executing OpenCode:
\* settlements, timeouts, cancellations, shutdowns, the Watchdog after a
\* crash and operators all wait until the group has been seen gone.
THEOREM ClosedIsGone == LaterSpec => []ClosedMeansGone
<1>1. EInv => ClosedMeansGone
  BY DEF EInv, MInv, GroupsOK, ClosedMeansGone, Started
<1> QED BY <1>1, Invariance, PTL

\* OpenCode runs under a launcher whose pid is in the database.
THEOREM AlwaysFindable == LaterSpec => []Findable
<1>1. EInv => Findable
  BY DEF EInv, MInv, GroupsOK, Findable, Started, Guarded
<1> QED BY <1>1, Invariance, PTL

\* A group that cannot prove whose it is is never signalled.
THEOREM SignalsIdentified == LaterSpec => []NoBlindSignal
<1>1. EInv => NoBlindSignal
  BY DEF EInv, MInv, GroupsOK, NoBlindSignal
<1> QED BY <1>1, Invariance, PTL

\* The Watchdog closes no run the Worker has an entry of.
THEOREM EntriesOwn == LaterSpec => []EntryOwnsOpenRun
<1>1. EInv => EntryOwnsOpenRun
  BY DEF EInv, MInv, EntriesOK, EntryOK, EntryOwnsOpenRun
<1> QED BY <1>1, Invariance, PTL

\* The Worker holds the batches of its entries and of the start under way.
THEOREM BatchesAccounted == LaterSpec => []BatchesHeld
<1>1. EInv => BatchesHeld
  BY DEF EInv, MInv, BatchesOK
<1> QED BY <1>1, Invariance, PTL

\* A process at work belongs to an open run of a task that occupies a slot.
LEMMA ExecutingOccupies ==
  ASSUME EInv, NEW r \in RunId, Executing(r)
  PROVE  /\ r \in DOMAIN runs /\ OpenRun(r)
         /\ runs[r].task \in DOMAIN tasks /\ QP!Occupied(runs[r].task)
<1>1. OpenRun(r)
  BY HasMemory DEF GroupsOK, Started
<1>2. r \in DOMAIN runs /\ runs[r].task \in DOMAIN tasks
  BY <1>1, HasMemory DEF TableFacts, OpenRun
<1>3. r \in QP!OpenRuns(runs[r].task)
  BY <1>1 DEF OpenRun, QP!OpenRuns
<1> QED BY <1>1, <1>2, <1>3 DEF QP!Occupied, QP!Active

\* Two processes of one task, or of one batch, are never at work together,
\* not even when one is a leftover of a Gateway that crashed.
THEOREM Serial == LaterSpec => []ExecutionsSerial
<1>1. EInv => ExecutionsSerial
  <2> SUFFICES ASSUME EInv, NEW r \in RunId, NEW s \in RunId, Executing(r), Executing(s), r # s
               PROVE  /\ runs[r].task # runs[s].task
                      /\ LET b == tasks[runs[r].task].batch IN b # NoBatch => b # tasks[runs[s].task].batch
    BY DEF ExecutionsSerial
  <2>1. runs[r].task # runs[s].task
    BY ExecutingOccupies, HasMemory DEF TableFacts
  <2>2. QP!BatchSerial
    BY DEF EInv, QP!HInv, QP!IInv
  <2> QED BY <2>1, <2>2, ExecutingOccupies DEF QP!BatchSerial
<1> QED BY <1>1, Invariance, PTL

\* maxConcurrency bounds the process groups at work: each belongs to an open
\* run, no two to one task, and the tasks are bounded.
THEOREM ProcessesCapped == LaterSpec => []ProcessCap
<1>1. EInv => ProcessCap
  <2> SUFFICES ASSUME EInv PROVE ProcessCap
    OBVIOUS
  <2> DEFINE S == {r \in RunId : Executing(r)}
             T == {t \in DOMAIN tasks : QP!Occupied(t)}
             f == [r \in S |-> runs[r].task]
  <2>1. f \in Injection(S, T)
    <3>1. \A r \in S : runs[r].task \in T
      BY ExecutingOccupies
    <3>2. \A q, r \in S : runs[q].task = runs[r].task => q = r
      BY ExecutingOccupies, HasMemory DEF TableFacts
    <3> HIDE DEF S, T
    <3>3. f \in [S -> T] /\ \A q, r \in S : f[q] = f[r] => q = r
      BY <3>1, <3>2
    <3> HIDE DEF f
    <3> QED BY <3>3, Fun_IsInj
  <2>2. IsFiniteSet(T)
    <3>1. T \subseteq 1 .. MaxTasks
      BY HasMemory DEF TableFacts, StoreTypeOK, TaskId
    <3>2. IsFiniteSet(1 .. MaxTasks)
      BY FS_Interval, StoreConstants
    <3> QED BY <3>1, <3>2, FS_Subset
  <2>3. Cardinality(S) <= Cardinality(T)
    <3> HIDE DEF S, T, f
    <3> QED BY <2>1, <2>2, FS_Injection
  <2>4. Cardinality(T) <= MaxConcurrency
    <3>1. QP!Cardinality(T) = Cardinality(T)
      BY DEF QP!Cardinality, Cardinality
    <3> QED BY <3>1 DEF EInv, QP!HInv, QP!IInv, QP!ConcurrencyCap
  <2>5. Cardinality(S) \in Nat /\ Cardinality(T) \in Nat
    <3> HIDE DEF S, T, f
    <3> QED BY <2>1, <2>2, FS_Injection, FS_CardinalityType
  <2>6. MaxConcurrency \in Nat
    BY ConcurrencyAssumption
  <2> HIDE DEF T, f
  <2> QED BY <2>3, <2>4, <2>5, <2>6 DEF ProcessCap
<1> QED BY <1>1, Invariance, PTL

\* Every behaviour of the Worker, the launchers and the Watchdog is one of
\* the queue, so that what is proved of TaskQueue holds of it.
THEOREM Implements == Spec => Refines
<1>1. Init => Queue!Init
  BY SameQueue DEF Init, StoreInit, Idle, QP!Init, QP!StoreInit, QueuePhase
<1>2. EInv /\ [Next]_vars => [Queue!Next]_Queue!vars
  BY Simulation, SameQueue DEF Queue!vars, QP!vars
<1> QED BY <1>1, <1>2, Invariance, SpecIsLater, PTL DEF Spec, LaterSpec, Refines, Queue!Spec
=============================================================================
