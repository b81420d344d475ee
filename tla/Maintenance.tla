----------------------------- MODULE Maintenance -----------------------------
(***************************************************************************)
(* The commands clear and restore replace what is in the database.         *)
(*                                                                         *)
(* Nobody may work on it meanwhile, so the command has PM2 stop the        *)
(* Gateway.  An orderly stop interrupts what runs and makes it look as if  *)
(* nothing ever ran; the command therefore looks before the stop and       *)
(* compares run ids after it.  The change itself is one transaction that   *)
(* checks everything again and writes a backup first.  Whatever fails, the *)
(* Gateway is started again, unless it shall stay stopped.                 *)
(***************************************************************************)
EXTENDS Pm2

CONSTANTS
  Tasks,          \* rows of tasks
  MaxRuns         \* bound: runs that are ever begun

ASSUME MaintenanceConstants == MaxRuns \in Nat

VARIABLES
  rows,           \* the tasks of the database
  last, seq,      \* the largest run id in it, and the last one given out
  open,           \* a task and its run are running
  cut,            \* PM2 has cut a run off since a command made sure there is none
  writer,         \* who has a transaction open to write
  snapshot        \* the tasks the last safety backup holds

dbVars == <<rows, last, seq, open, cut, writer, snapshot>>

Upkeep == {"clear", "restore"}

DbTypeOK ==
  /\ rows \subseteq Tasks /\ snapshot \subseteq Tasks
  /\ last \in 0 .. MaxRuns /\ seq \in 0 .. MaxRuns
  /\ open \in BOOLEAN /\ cut \in BOOLEAN
  /\ writer \in Clients \cup {"nobody"}

DbInit ==
  /\ rows = Tasks /\ snapshot = {}
  /\ last = 0 /\ seq = 0
  /\ open = FALSE /\ cut = FALSE
  /\ writer = "nobody"

NoWriter == writer = "nobody" /\ UNCHANGED writer

Offside == UNCHANGED <<lockVars, daemonVars, agentVars, locks, faults>>

-----------------------------------------------------------------------------
(* The database while the Gateway works.                                   *)

AddTask == \E t \in Tasks \ rows : NoWriter /\ rows' = rows \cup {t} /\ UNCHANGED <<last, seq, open, cut, snapshot>>

\* The id is larger than any before, also when those rows are deleted.
StartRun(p) ==
  /\ proc[p] \in {"starting", "up"}
  /\ NoWriter
  /\ rows # {} /\ ~open
  /\ seq < MaxRuns
  /\ open' = TRUE /\ seq' = seq + 1 /\ last' = seq + 1
  /\ UNCHANGED <<rows, cut, snapshot>>

\* By its Worker, or by the Watchdog of a later Gateway.
EndRun(p) ==
  /\ Works(p)
  /\ NoWriter
  /\ open /\ open' = FALSE
  /\ UNCHANGED <<rows, last, seq, cut, snapshot>>

\* DELETE of every business table; the ids go on.
Emptied == rows' = {} /\ last' = 0 /\ cut' = FALSE /\ open' = FALSE /\ UNCHANGED seq

\* The Dashboard clears the database its own Gateway works on: one
\* transaction, no management lock.
DashboardClear(p) ==
  /\ proc[p] = "up"
  /\ NoWriter
  /\ lock.pid = p \/ ~IsAlive(lock.pid)
  /\ ~open
  /\ snapshot' = rows
  /\ Emptied

Database ==
  /\ AddTask \/ \E p \in Pids : StartRun(p) \/ EndRun(p) \/ DashboardClear(p)
  /\ UNCHANGED client /\ Offside

\* The shutdown hands a running task back to the queue and closes its run,
\* unless it cannot tell that its processes are gone.
Interrupts(p) ==
  /\ open' \in {FALSE, open}
  /\ cut' = (cut \/ (open /\ ~open' /\ p = entry.pid /\ entry.status = "stopping"))

\* Time passes, and a process begins or ends.
WritesNothing ==
  \/ Age
  \/ lock' = lock /\ \A p \in Pids : proc'[p] # proc[p] => "gone" \in {proc[p], proc'[p]}

\* Everybody who writes the row of the lock waits for the transaction.
GatewayAndOthers ==
  /\ Processes
  /\ writer # "nobody" => WritesNothing
  /\ IF \E p \in Pids : proc[p] = "stopping" /\ proc'[p] = "leaving"
     THEN \E p \in Pids : proc[p] # proc'[p] /\ Interrupts(p)
     ELSE UNCHANGED <<open, cut>>
  /\ UNCHANGED <<rows, last, seq, writer, snapshot>>

-----------------------------------------------------------------------------
(* Before the operation.                                                   *)

Order(c, op, keep) ==
  /\ client[c].pc = "idle"
  /\ client' = [client EXCEPT ![c] =
       [Idle EXCEPT !.op = op, !.keep = keep, !.pc = "locking", !.paths = SavedManagementLockPaths]]
  /\ Offside /\ UNCHANGED dbVars

\* Work in progress is a reason to refuse, and the last word on run ids
\* comes from before the stop.
AssertIdleBeforeGatewayStop(c) ==
  /\ client[c].pc = "enter" /\ client[c].op \in Upkeep
  /\ IF open THEN Finish(c, "refused") /\ UNCHANGED cut
     ELSE client' = [client EXCEPT ![c].pc = "halt", ![c].baseline = last] /\ cut' = FALSE
  /\ Offside /\ UNCHANGED <<rows, last, seq, open, writer, snapshot>>

Managed == entry.status = "online" /\ IsReady(entry.pid)

\* PM2 manages no ready Gateway of this database: there is none to stop.
NoneToStop(c) ==
  /\ client[c].pc = "halt" /\ ~Managed
  /\ Go(c, "since")
  /\ Offside /\ UNCHANGED dbVars

\* A pm2 that cannot be run in the Gateway's environment, or would kill it
\* before work it has begun is over.
RefuseToStop(c) ==
  /\ client[c].pc = "halt" /\ Managed
  /\ Finish(c, "refused")
  /\ Offside /\ UNCHANGED dbVars

\* A stop that fails may have begun: the Gateway is started again.
StopGatewayForMaintenance(c) ==
  /\ client[c].pc = "halt" /\ Managed
  /\ Call(Terminate("stopping"),
       client' = [client EXCEPT ![c].pc = "halting", ![c].was = TRUE],
       client' = [client EXCEPT ![c].pc = "revive", ![c].was = TRUE, ![c].report = "refused"])
  /\ UNCHANGED <<agentVars, locks, dbVars>>

Halted(c) ==
  /\ client[c].pc = "halting" /\ entry.status = "stopped"
  /\ Go(c, "since")
  /\ Offside /\ UNCHANGED dbVars

\* Starts the Gateway again, if it ran, and ends with the report.
Back(c, report) ==
  IF client[c].was THEN client' = [client EXCEPT ![c].pc = "revive", ![c].report = report]
  ELSE Finish(c, report)

\* Fault: what ran between the look and the stop is not asked for.
NoQuestion(c) == FALSE

RunsStartedSince(c) == last > client[c].baseline

AssertNoRunsStartedSince(c) ==
  /\ client[c].pc = "since"
  /\ IF RunsStartedSince(c) THEN Back(c, "refused")
     ELSE Go(c, IF client[c].op = "clear" THEN "assess" ELSE "begin")
  /\ Offside /\ UNCHANGED dbVars

-----------------------------------------------------------------------------
(* The operation.                                                          *)

\* Fault: a failed operation is the end of it.
NoUndo(c, report) == Finish(c, report)

\* As the user wants it: started again, or left where it is.
Undo(c, report) == IF client[c].keep THEN Finish(c, report) ELSE Back(c, report)

\* assertGatewaySafe and assertNoRunningWork.
Unsafe == IsAlive(lock.pid) \/ open

\* clear looks before it asks for the transaction.
LookFirst(c) ==
  /\ client[c].pc = "assess"
  /\ IF Unsafe THEN Undo(c, "failed") ELSE Go(c, "begin")
  /\ Offside /\ UNCHANGED dbVars

\* Fault: the look before the transaction is enough.
UncheckedBegin(c) == snapshot' = rows /\ writer' = c /\ Go(c, "commit")

\* Fault: the backup is the one written for an earlier operation.
StaleBegin(c) ==
  IF Unsafe THEN Undo(c, "failed") /\ UNCHANGED <<snapshot, writer>>
  ELSE writer' = c /\ UNCHANGED snapshot /\ Go(c, "commit")

\* In the transaction everything is checked, and then saved.
CheckAndSave(c) ==
  IF Unsafe THEN Undo(c, "failed") /\ UNCHANGED <<snapshot, writer>>
  ELSE snapshot' = rows /\ writer' = c /\ Go(c, "commit")

Begin(c) ==
  /\ client[c].pc = "begin" /\ writer = "nobody"
  /\ CheckAndSave(c)
  /\ Offside /\ UNCHANGED <<rows, last, seq, open, cut>>

\* The tasks and the run ids of the file; its running tasks are pending.
Restored ==
  /\ rows' \in SUBSET Tasks
  /\ seq' \in 0 .. seq /\ last' \in 0 .. seq' /\ cut' = FALSE
  /\ open' = FALSE

Commit(c) ==
  /\ client[c].pc = "commit"
  /\ IF client[c].op = "clear" THEN Emptied /\ UNCHANGED lockVars
     ELSE Restored /\ ForgetLock
  /\ writer' = "nobody"
  /\ Undo(c, "ok")
  /\ UNCHANGED <<daemonVars, agentVars, locks, faults, snapshot>>

\* Somebody writes for too long, a file does not fit, the disk is full, or
\* restore sees a Gateway when it looks again; the backup stays.
Rollback(c) ==
  /\ \/ client[c].pc = "commit" /\ (Fault \/ (client[c].op = "restore" /\ IsAlive(lock.pid) /\ UNCHANGED faults))
     \/ client[c].pc = "begin" /\ Fault
  /\ writer' = IF writer = c THEN "nobody" ELSE writer
  /\ Undo(c, "failed")
  /\ UNCHANGED <<lockVars, daemonVars, agentVars, locks, rows, last, seq, open, cut, snapshot>>

-----------------------------------------------------------------------------
(* After the operation.                                                    *)

Revive(c) ==
  /\ client[c].pc = "revive"
  /\ \/ Call(StartName, Go(c, "watch"), Finish(c, "unrecovered"))
     \/ ~MayStartName /\ Finish(c, "unrecovered") /\ UNCHANGED <<lockVars, daemonVars, faults>>
  /\ UNCHANGED <<agentVars, locks, dbVars>>

\* The new process has to be listed, and to own the lock, in time.
Watch(c) ==
  /\ client[c].pc = "watch" /\ entry.status # "restarting"
  /\ \/ entry.status = "online" /\ client' = [client EXCEPT ![c].pc = "await", ![c].pid = entry.pid]
     \/ entry.status # "online" /\ Finish(c, "unrecovered")
  /\ Offside /\ UNCHANGED dbVars

Await(c) ==
  /\ client[c].pc = "await"
  /\ Finish(c, IF IsReady(client[c].pid) THEN client[c].report ELSE "unrecovered")
  /\ Offside /\ UNCHANGED dbVars

Maintains(c) ==
  \/ \E op \in Upkeep, keep \in BOOLEAN : Order(c, op, keep)
  \/ AssertIdleBeforeGatewayStop(c) \/ NoneToStop(c) \/ RefuseToStop(c)
  \/ StopGatewayForMaintenance(c) \/ Halted(c) \/ AssertNoRunsStartedSince(c)
  \/ LookFirst(c) \/ Begin(c) \/ Commit(c) \/ Rollback(c)
  \/ Revive(c) \/ Watch(c) \/ Await(c)

-----------------------------------------------------------------------------
(* Correctness.                                                            *)

(* When a command empties or replaces the database nobody works on it,     *)
(* nothing is recorded as running, and no run was cut off by the stop the  *)
(* command itself asked for, although a Gateway may be started by hand,    *)
(* take runs until the last moment, crash, or have another run cut off by  *)
(* its shutdown (withGatewayMaintenance, assertNoRunsStartedSince).        *)
MaintenanceAlone ==
  \A c \in Clients : client[c].pc = "commit" =>
     /\ ~open
     /\ \A p \in Pids : ~Works(p)
     /\ client[c].was => ~cut

(* No task leaves the database but by an operation whose safety backup     *)
(* holds it, also when it was added while the operation began (clear and   *)
(* restore in database-maintenance.service.ts).                            *)
LossIsBackedUp == [][rows \ rows' \subseteq snapshot']_dbVars

(* A command that stopped the Gateway and does not report that it could    *)
(* not start it again leaves it to run, whatever it was that failed, and   *)
(* stopped exactly when that was asked for (withGatewayMaintenance,        *)
(* stopGatewayForMaintenance).                                             *)
GatewayComesBack ==
  \A c \in Clients :
    client[c].pc = "leave" /\ client[c].was /\ client[c].report # "unrecovered" =>
      IF client[c].keep /\ client[c].report # "refused"
      THEN entry.status = "stopped"
      ELSE entry.status \notin {"none", "stopping", "stopped"}
=============================================================================
