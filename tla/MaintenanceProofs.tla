-------------------------- MODULE MaintenanceProofs --------------------------
(***************************************************************************)
(* Proofs that clear and restore lose nothing, cut nothing off and leave   *)
(* the Gateway as they should, whatever else happens meanwhile.            *)
(***************************************************************************)
EXTENDS ManagementProofs

\* Where an entry stays that nobody tells PM2 to stop or to delete.
Live == {"online", "waiting", "restarting", "errored"}

\* What PM2 has stopped has no process.
StoppedIsDead == entry.status = "stopped" => entry.pid = NoPid

\* A run that is recorded, or was cut off, began after the command looked.
SeenBefore(r) == r.baseline <= seq /\ (open \/ cut => last > r.baseline)

\* What a command that maintains the database may rely on, stage by stage.
Seen(r) ==
  /\ r.pc \in {"halt", "halting"} => SeenBefore(r)
  /\ r.pc = "halting" => entry.status \in {"stopping", "stopped"}
  /\ r.pc = "since" /\ r.was => r.baseline <= seq /\ (cut => last > r.baseline)
  /\ r.pc \in {"assess", "begin", "commit"} /\ r.was => ~cut
  /\ r.pc \in {"since", "assess", "begin", "commit"} /\ r.was => entry.status = "stopped"
  /\ r.pc \in {"revive", "watch", "await"} => (r.keep => r.report = "refused")
  /\ r.pc \in {"watch", "await"} => entry.status \in Live
  /\ r.pc = "leave" /\ r.was /\ r.report # "unrecovered" =>
       IF r.keep /\ r.report # "refused" THEN entry.status = "stopped" ELSE entry.status \in Live

\* The transaction of a command: nobody works, and all rows are saved.
Alone(c) ==
  client[c].pc = "commit" =>
    /\ writer = c
    /\ ~open /\ rows \subseteq snapshot
    /\ \A p \in Pids : ~Works(p)

Upheld ==
  /\ last <= seq
  /\ StoppedIsDead
  /\ \A c \in Clients : Seen(client[c]) /\ Alone(c)

GInv == MInv /\ Upheld

-----------------------------------------------------------------------------
(* Steps of anybody else.                                                  *)

LEMMA Numbers ==
  ASSUME Typed
  PROVE  /\ last \in Nat /\ seq \in Nat
         /\ \A c \in Clients : client[c].baseline \in Nat
BY MaintenanceConstants DEF Typed, DbTypeOK, Command

\* What the world may do while a command is inside.
Env(c) ==
  /\ entry.status = "stopped" => entry'.status = "stopped"
  /\ entry.status = "stopping" => entry'.status \in {"stopping", "stopped"}
  /\ entry.status \in Live => entry'.status \in Live
  /\ seq' \in Nat /\ seq <= seq'
  /\ \/ (open' => open) /\ (cut' => cut \/ (open /\ entry.status = "stopping")) /\ last' = last
     \/ cut' = cut /\ seq' = seq + 1 /\ last' = seq + 1
     \/ ~open' /\ ~cut'
  /\ writer = c =>
       /\ writer' = c /\ (open' => open) /\ rows' = rows /\ snapshot' = snapshot
       /\ \A p \in Pids : Works(p)' => Works(p)

LEMMA OutsideSeen ==
  ASSUME NEW r, ~Inside(r)
  PROVE  Seen(r) /\ Seen(r)'
BY DEF Inside, Away, Seen

LEMMA EnvSeen ==
  ASSUME Typed, Upheld, NEW c \in Clients, client'[c] = client[c], Env(c)
  PROVE  Seen(client[c])' /\ Alone(c)'
<1>0. PICK r : r = client[c] OBVIOUS
<1>1. last \in Nat /\ seq \in Nat /\ r.baseline \in Nat BY <1>0, Numbers
<1>2. Seen(r) /\ Alone(c) BY <1>0 DEF Upheld
<1>3. SeenBefore(r) /\ r.pc \in {"halt", "halting"} /\ (r.pc = "halting" => entry.status \in {"stopping", "stopped"})
      => SeenBefore(r)'
  <2> SUFFICES ASSUME SeenBefore(r) PROVE SeenBefore(r)'
    OBVIOUS
  <2>1. r.baseline <= seq' BY <1>1 DEF SeenBefore, Env
  <2>2. open' \/ cut' => last' > r.baseline
    <3>1. CASE (open' => open) /\ (cut' => cut \/ (open /\ entry.status = "stopping")) /\ last' = last
      BY <1>1, <3>1 DEF SeenBefore
    <3>2. CASE cut' = cut /\ seq' = seq + 1 /\ last' = seq + 1
      BY <1>1, <3>2 DEF SeenBefore
    <3>3. CASE ~open' /\ ~cut' BY <3>3
    <3> QED BY <3>1, <3>2, <3>3 DEF Env
  <2> QED BY <2>1, <2>2 DEF SeenBefore
<1>4. r.pc = "since" /\ r.was => r.baseline <= seq' /\ (cut' => last' > r.baseline)
  BY <1>1, <1>2 DEF Seen, Env
<1>5. r.pc \in {"assess", "begin", "commit"} /\ r.was => ~cut'
  BY <1>2 DEF Seen, Env
<1>6. Seen(r)'
  <2>1. r.pc \in {"halt", "halting"} => SeenBefore(r)' BY <1>2, <1>3 DEF Seen
  <2>2. r.pc = "halting" => entry'.status \in {"stopping", "stopped"} BY <1>2 DEF Seen, Env
  <2>3. r.pc \in {"since", "assess", "begin", "commit"} /\ r.was => entry'.status = "stopped"
    BY <1>2 DEF Seen, Env
  <2>4. r.pc \in {"revive", "watch", "await"} => (r.keep => r.report = "refused") BY <1>2 DEF Seen
  <2>5. r.pc \in {"watch", "await"} => entry'.status \in Live BY <1>2 DEF Seen, Env
  <2>6. r.pc = "leave" /\ r.was /\ r.report # "unrecovered" =>
          IF r.keep /\ r.report # "refused" THEN entry'.status = "stopped" ELSE entry'.status \in Live
    BY <1>2 DEF Seen, Env
  <2> QED BY <1>4, <1>5, <2>1, <2>2, <2>3, <2>4, <2>5, <2>6 DEF Seen, Live
<1>7. Alone(c)' BY <1>2 DEF Alone, Env
<1> QED BY <1>0, <1>6, <1>7

\* Neither processes nor the entry nor the data change.
LEMMA QuietEnv ==
  ASSUME Typed, NEW c \in Clients, UNCHANGED <<lockVars, daemonVars, rows, last, seq, open, cut, snapshot>>,
         writer = c => writer' = c
  PROVE  Env(c) /\ (StoppedIsDead => StoppedIsDead')
<1>1. UNCHANGED <<entry, proc, rows, last, seq, open, cut, snapshot>> BY DEF lockVars, daemonVars
<1>2. seq' \in Nat /\ seq <= seq' BY <1>1, Numbers
<1>3. \A p \in Pids : Works(p)' => Works(p) BY <1>1 DEF Works
<1> QED BY <1>1, <1>2, <1>3 DEF Env, Live, StoppedIsDead

\* What PM2 starts is not a Gateway that works, yet.
LEMMA ForkEnv ==
  ASSUME Typed, NEW app \in Release, Fork(app)
  PROVE  /\ entry'.status = "online"
         /\ \A p \in Pids : Works(p)' => Works(p)
<1>1. PICK p \in Pids : Spawn(p, "boot", app) /\ entry' = [app |-> app, status |-> "online", pid |-> p]
  BY DEF Fork
<1>2. proc \in [Pids -> Phases] BY DEF Typed, World, LockInv, LockTypeOK
<1>3. proc' = [proc EXCEPT ![p] = "boot"] BY <1>1 DEF Spawn, Become
<1> QED BY <1>1, <1>2, <1>3 DEF Works

LEMMA DaemonEnv ==
  ASSUME Typed, StoppedIsDead, NEW c, Daemon, UNCHANGED dbVars
  PROVE  Env(c) /\ StoppedIsDead'
<1>1. entry \in Entry BY DEF Typed, World
<1>2. UNCHANGED <<rows, last, seq, open, cut, writer, snapshot>> BY DEF dbVars
<1>3. seq' \in Nat /\ seq <= seq' BY <1>2, Numbers
<1>4. CASE Reap
  <2>1. \A p \in Pids : Works(p)' => Works(p) BY <1>4 DEF Reap, lockVars, Works
  <2>2. entry.pid # NoPid BY <1>4 DEF Reap
  <2>3. /\ entry.status = "deleting" => entry' = NoEntry
        /\ entry.status = "stopping" => entry' = [entry EXCEPT !.status = "stopped", !.pid = NoPid]
        /\ entry.status \notin {"deleting", "stopping"} =>
             entry' = [entry EXCEPT !.status = "waiting", !.pid = NoPid]
    BY <1>4 DEF Reap
  <2>4. /\ entry.status = "stopping" => entry'.status = "stopped"
        /\ entry.status \in Live => entry'.status = "waiting"
        /\ entry'.status = "stopped" => entry'.pid = NoPid
    <3>1. CASE entry.status = "deleting" BY <2>3, <3>1 DEF NoEntry, Live
    <3>2. CASE entry.status = "stopping"
      <4>1. entry' = [entry EXCEPT !.status = "stopped", !.pid = NoPid] BY <2>3, <3>2
      <4>2. entry'.status = "stopped" /\ entry'.pid = NoPid BY <1>1, <4>1 DEF Entry
      <4> QED BY <3>2, <4>2 DEF Live
    <3>3. CASE entry.status \notin {"deleting", "stopping"}
      <4>1. entry' = [entry EXCEPT !.status = "waiting", !.pid = NoPid] BY <2>3, <3>3
      <4>2. entry'.status = "waiting" BY <1>1, <4>1 DEF Entry
      <4> QED BY <3>3, <4>2
    <3> QED BY <3>1, <3>2, <3>3
  <2> QED BY <1>2, <1>3, <2>1, <2>2, <2>4 DEF Env, StoppedIsDead, Live
<1>5. CASE Restart
  <2>1. entry.app \in Release /\ entry.status = "waiting" /\ Fork(entry.app) BY <1>1, <1>5 DEF Restart, Entry
  <2>2. entry'.status = "online" /\ \A p \in Pids : Works(p)' => Works(p) BY <2>1, ForkEnv
  <2> QED BY <1>2, <1>3, <2>1, <2>2 DEF Env, StoppedIsDead, Live
<1>6. CASE GiveUp
  <2>1. \A p \in Pids : Works(p)' => Works(p) BY <1>6 DEF GiveUp, lockVars, Works
  <2>2. entry.status = "waiting" /\ entry'.status = "errored" BY <1>1, <1>6 DEF GiveUp, Entry
  <2> QED BY <1>2, <1>3, <2>1, <2>2 DEF Env, StoppedIsDead, Live
<1> QED BY <1>4, <1>5, <1>6 DEF Daemon

\* While a transaction is open nobody becomes a Gateway that works.
LEMMA NobodyBegins ==
  ASSUME Typed, Processes, WritesNothing
  PROVE  \A p \in Pids : Works(p)' => Works(p)
<1>1. proc \in [Pids -> Phases] BY DEF Typed, World, LockInv, LockTypeOK
<1>2. CASE Age BY <1>2 DEF Age, Works
<1>3. ASSUME NEW q \in Pids, proc'[q] # proc[q], Works(q)', \A p \in Pids : proc'[p] # proc[p] => "gone" \in {proc[p], proc'[p]}
      PROVE  FALSE
  <2>1. proc[q] = "gone" BY <1>3 DEF Works
  <2>2. ASSUME NEW p \in Pids, Become(p, "gone") \/ Become(p, "boot") \/ Become(p, "other") \/ Become(p, "elsewhere")
                              \/ UNCHANGED proc
        PROVE  FALSE
    BY <1>1, <1>3, <2>2 DEF Become, Works
  <2>3. ASSUME NEW p \in Pids, p # q, NEW phase, Become(p, phase) PROVE FALSE
    BY <1>1, <1>3, <2>3 DEF Become
  <2>4. ASSUME NEW p \in Pids, Runs(p) PROVE FALSE
    BY <2>1, <2>2, <2>3, <2>4
    DEF Runs, AcquireLock, ExitWithoutLock, UpdateLockHeartbeat, MarkGatewayReady, ReleaseLock, Heed,
        BeginShutdown, Die
  <2>5. ASSUME NEW p \in Pids, Strikes(p) PROVE FALSE
    BY <2>1, <2>2, <2>3, <2>5 DEF Strikes, BeginShutdown, Die, Spawn
  <2>6. ASSUME NEW p \in Pids, Die(p) PROVE FALSE BY <2>2, <2>6 DEF Die
  <2>7. ~Age BY <1>3 DEF Age
  <2> QED BY <2>4, <2>5, <2>6, <2>7 DEF Processes
<1>4. ASSUME NEW q \in Pids, Works(q)', ~Works(q) PROVE proc'[q] # proc[q] BY <1>4 DEF Works
<1> QED BY <1>2, <1>3, <1>4 DEF WritesNothing

LEMMA WorkEnv ==
  ASSUME Typed, StoppedIsDead, last <= seq, NEW c, c # "nobody", GatewayAndOthers \/ Database
  PROVE  Env(c) /\ StoppedIsDead' /\ last' <= seq'
<1>1. last \in Nat /\ seq \in Nat BY Numbers
<1>3. CASE GatewayAndOthers
  <2>1. UNCHANGED <<entry, rows, last, seq, writer, snapshot>>
    BY <1>3 DEF GatewayAndOthers, Processes, Runs, Strikes, daemonVars
  <2>2. (open' => open) /\ (cut' => cut \/ (open /\ entry.status = "stopping"))
    BY <1>3 DEF GatewayAndOthers, Interrupts
  <2>3. writer = c => \A p \in Pids : Works(p)' => Works(p)
    BY <1>3, NobodyBegins DEF GatewayAndOthers
  <2>4. seq' \in Nat /\ seq <= seq' /\ last' <= seq' BY <1>1, <2>1
  <2> QED BY <2>1, <2>2, <2>3, <2>4 DEF Env, Live, StoppedIsDead
<1>4. CASE Database
  <2>1. UNCHANGED <<entry, proc>> BY <1>4 DEF Database, Offside, lockVars, daemonVars
  <2>2. writer # c BY <1>4 DEF Database, AddTask, StartRun, EndRun, DashboardClear, NoWriter
  <2>3. seq' \in Nat /\ seq <= seq' /\ last' <= seq'
    BY <1>1, <1>4 DEF Database, AddTask, StartRun, EndRun, DashboardClear, Emptied
  <2>4. \/ (open' => open) /\ (cut' => cut \/ (open /\ entry.status = "stopping")) /\ last' = last
        \/ cut' = cut /\ seq' = seq + 1 /\ last' = seq + 1
        \/ ~open' /\ ~cut'
    <3>1. CASE AddTask BY <3>1 DEF AddTask
    <3>2. ASSUME NEW p \in Pids, StartRun(p) PROVE cut' = cut /\ seq' = seq + 1 /\ last' = seq + 1
      BY <3>2 DEF StartRun
    <3>3. ASSUME NEW p \in Pids, EndRun(p) PROVE (open' => open) /\ cut' = cut /\ last' = last
      BY <3>3 DEF EndRun
    <3>4. ASSUME NEW p \in Pids, DashboardClear(p) PROVE ~open' /\ ~cut'
      BY <3>4 DEF DashboardClear, Emptied
    <3> QED BY <1>4, <3>1, <3>2, <3>3, <3>4 DEF Database
  <2> QED BY <2>1, <2>2, <2>3, <2>4 DEF Env, Live, StoppedIsDead
<1> QED BY <1>3, <1>4

-----------------------------------------------------------------------------
(* Steps of a command.                                                     *)

\* What a command that is outside does concerns nobody inside.
LEMMA OutsideQuiet ==
  ASSUME Typed, NEW d \in Clients, client[d].pc \in Away,
         (Deploys(d) /\ UNCHANGED dbVars) \/ Maintains(d)
  PROVE  UNCHANGED <<lockVars, daemonVars, dbVars>>
<1>1. CASE Maintains(d)
  <2>1. \E op \in Upkeep, keep \in BOOLEAN : Order(d, op, keep)
    BY <1>1 DEF Maintains, AssertIdleBeforeGatewayStop, NoneToStop, RefuseToStop, StopGatewayForMaintenance,
       Halted, AssertNoRunsStartedSince, LookFirst, Begin, Commit, Rollback, Revive, Watch, Await, Away
  <2> QED BY <2>1 DEF Order, Offside
<1>2. CASE Deploys(d) /\ UNCHANGED dbVars
  <2>1. \/ \E target \in Targets : Request(d, target)
        \/ NothingToDo(d) \/ UpgradePlugin(d) \/ RollbackPlugin(d)
        \/ TakeLock(d) \/ FindsBusy(d) \/ Leave(d) \/ End(d)
    BY <1>2 DEF Deploys, Refuse, Check, Enters, Delete, Deleted, Start, Look, WaitForGatewayReady, CheckVersion,
       SavePm2State, WriteRunningVersion, Clean, Cleaned, GoBack, Forget, WriteAgent, Bootstrap, RollbackAgent,
       RemoveAgent, Away
  <2> QED BY <1>2, <2>1 DEF Request, NothingToDo, UpgradePlugin, RollbackPlugin, InstallPlugin, TakeLock, FindsBusy,
                      Leave, End, Aside
<1> QED BY <1>1, <1>2

\* Where a command is that does not maintain the database.
Elsewhere ==
  {"idle", "plugin", "replug", "locking", "enter", "leave", "end",
   "delete", "deleting", "start", "look", "ready", "version", "save", "note", "clean", "cleaning", "restore",
   "forget", "agent", "boot", "unload"}

LEMMA ElsewhereSeen ==
  ASSUME NEW c \in Clients, client[c].pc \in Elsewhere, client[c].pc = "leave" => ~client[c].was
  PROVE  Seen(client[c]) /\ Alone(c)
BY DEF Seen, Alone, Elsewhere

LEMMA DeployStays ==
  ASSUME Typed, NEW c \in Clients, Deploys(c)
  PROVE  client'[c].pc \in Elsewhere /\ (client'[c].pc = "leave" => ~client'[c].was)
<1>1. client \in [Clients -> Command] /\ client[c] \in Command BY DEF Typed
<1>2. client[c].was => client[c].pc \in WasStages BY DEF Typed
<1>3. ASSUME NEW pc \in Elsewhere \ {"leave"}, Go(c, pc) PROVE client'[c].pc = pc
  BY <1>1, <1>3 DEF Go
<1>4. ASSUME NEW report, Finish(c, report), ~client[c].was PROVE (client'[c].pc = "leave" /\ ~client'[c].was)
  BY <1>1, <1>4 DEF Finish, Command
<1>5. \A pc \in Elsewhere \ {"leave"} : Go(c, pc) => client'[c].pc \in Elsewhere \ {"leave"} BY <1>3
<1>6. ~client[c].was => \A report : Finish(c, report) => client'[c].pc = "leave" /\ ~client'[c].was BY <1>4
<1>7. ~client[c].was /\ Fails(c) =>
       (client'[c].pc \in Elsewhere /\ (client'[c].pc = "leave" => ~client'[c].was))
  BY <1>5, <1>6 DEF Fails, Elsewhere
<1>8. ASSUME NEW pc \in Elsewhere \ {"leave"},
             \/ client' = [client EXCEPT ![c].pc = pc, ![c].old = entry.app, ![c].before = noted]
             \/ \E report : client' = [client EXCEPT ![c].pc = pc, ![c].report = report]
      PROVE  client'[c].pc = pc
  BY <1>1, <1>8 DEF Command
<1> DEFINE Done == client'[c].pc \in Elsewhere /\ (client'[c].pc = "leave" => ~client'[c].was)
<1>9. ASSUME NEW target \in Targets, Request(c, target) PROVE Done
  <2> DEFINE pc == IF target.op = "upgrade" THEN "plugin" ELSE "locking"
             r == NewCommand(target, pc)
  <2>1. client'[c] = r BY <1>1, <1>9 DEF Request
  <2>2. r.pc = pc BY IdleType DEF NewCommand, Command
  <2> HIDE DEF r
  <2> QED BY <2>1, <2>2 DEF Elsewhere
<1>10. client' = [client EXCEPT ![c] = Idle] => Done
  BY <1>1, IdleType DEF Elsewhere
<1> SUFFICES Done
  BY DEF Done
<1> HIDE DEF Done
<1>11. \A pc \in Elsewhere \ {"leave"} : client'[c].pc = pc => Done BY DEF Done
<1>12. \A pc \in Elsewhere \ {"leave"} : Go(c, pc) => Done BY <1>5 DEF Done
<1>13. ~client[c].was => \A report : Finish(c, report) => Done BY <1>6 DEF Done, Elsewhere
<1>14. ~client[c].was /\ Fails(c) => Done BY <1>7 DEF Done, Elsewhere
<1> USE DEF Elsewhere, WasStages
<1>38. ASSUME NEW pc \in Elsewhere \ {"leave"}, NEW report,
              client' = [client EXCEPT ![c].pc = pc, ![c].report = report]
       PROVE  Done
  BY <1>8, <1>11, <1>38
<1>15. CASE UpgradePlugin(c)
  <2>1. CASE client' = [client EXCEPT ![c].pc = "locking", ![c].paths = SavedManagementLockPaths]
    <3>1. client'[c].pc = "locking" BY <1>1, <2>1 DEF Command
    <3> QED BY <1>11, <3>1
  <2>2. CASE client' = [client EXCEPT ![c].pc = "replug", ![c].report = "failed"] BY <1>38, <2>2
  <2> QED BY <1>15, <2>1, <2>2 DEF UpgradePlugin, InstallPlugin
<1>16. CASE RollbackPlugin(c)
  <2>1. CASE Go(c, "end") BY <1>12, <2>1
  <2>2. CASE client' = [client EXCEPT ![c].pc = "end", ![c].report = "unrecovered"] BY <1>38, <2>2
  <2> QED BY <1>16, <2>1, <2>2 DEF RollbackPlugin, InstallPlugin
<1>17. CASE TakeLock(c)
  <2>1. PICK pc \in {"enter", "locking"} : Go(c, pc) BY <1>17 DEF TakeLock
  <2> QED BY <1>12, <2>1
<1>18. CASE FindsBusy(c)
  <2>1. ~client[c].was BY <1>2, <1>18 DEF FindsBusy
  <2> QED BY <1>1, <1>18, <2>1 DEF FindsBusy, Done, Command
<1>19. CASE Refuse(c) BY <1>2, <1>13, <1>19 DEF Refuse, Enters
<1>20. CASE Check(c)
  <2>1. ~client[c].was BY <1>2, <1>20 DEF Check, Enters
  <2>2. CASE Finish(c, "already") BY <1>13, <2>1, <2>2
  <2>3. CASE \E pc \in {"delete", "forget", "start"} :
               client' = [client EXCEPT ![c].pc = pc, ![c].old = entry.app, ![c].before = noted]
    BY <1>8, <1>11, <2>3
  <2> QED BY <1>20, <2>2, <2>3 DEF Check
<1>21. CASE Delete(c) BY <1>2, <1>12, <1>13, <1>21 DEF Delete, Call
<1>22. CASE Deleted(c)
  <2>1. PICK pc \in {"forget", "start"} : Go(c, pc) BY <1>22 DEF Deleted
  <2> QED BY <1>12, <2>1
<1>23. CASE Start(c) BY <1>2, <1>12, <1>14, <1>23 DEF Start, Call
<1>24. CASE Look(c)
  <2>1. ~client[c].was BY <1>2, <1>24 DEF Look
  <2>2. CASE client' = [client EXCEPT ![c].pc = "ready", ![c].pid = entry.pid]
    <3>1. client'[c].pc = "ready" BY <1>1, <2>2 DEF Command
    <3> QED BY <1>11, <3>1
  <2> QED BY <1>14, <1>24, <2>1, <2>2 DEF Look
<1>25. CASE WaitForGatewayReady(c) BY <1>2, <1>12, <1>14, <1>25 DEF WaitForGatewayReady
<1>39. CASE CheckVersion(c)
  <2>1. ~client[c].was BY <1>2, <1>39 DEF CheckVersion
  <2>2. CASE client' = [client EXCEPT ![c].pc = "save", ![c].told = (ReadyVersion(c) # NoVersion)]
    <3>1. client'[c].pc = "save" BY <1>1, <2>2 DEF Command
    <3> QED BY <1>11, <3>1
  <2> QED BY <1>14, <1>39, <2>1, <2>2 DEF CheckVersion
<1>26. CASE SavePm2State(c) BY <1>2, <1>12, <1>14, <1>26 DEF SavePm2State, Call
<1>27. CASE WriteRunningVersion(c) BY <1>2, <1>12, <1>13, <1>14, <1>27 DEF WriteRunningVersion
<1>28. CASE Clean(c) BY <1>12, <1>28 DEF Clean, Call
<1>29. CASE Cleaned(c) BY <1>12, <1>29 DEF Cleaned
<1>30. CASE GoBack(c)
  <2>1. ~client[c].was BY <1>2, <1>30 DEF GoBack
  <2>2. CASE client' = [client EXCEPT ![c].pc = "start", ![c].back = TRUE, ![c].pid = NoPid]
    <3>1. client'[c].pc = "start" BY <1>1, <2>2 DEF Command
    <3> QED BY <1>11, <3>1
  <2> QED BY <1>13, <1>30, <2>1, <2>2 DEF GoBack
<1>31. CASE Forget(c) BY <1>2, <1>12, <1>13, <1>31 DEF Forget, Call
<1>32. CASE WriteAgent(c)
  <2>1. client'[c].pc = "boot" BY <1>1, <1>32 DEF WriteAgent, Command
  <2> QED BY <1>11, <2>1
<1>33. CASE Bootstrap(c) BY <1>2, <1>13, <1>33 DEF Bootstrap
<1>34. CASE RollbackAgent(c) BY <1>2, <1>13, <1>34 DEF RollbackAgent
<1>35. CASE RemoveAgent(c) BY <1>2, <1>13, <1>35 DEF RemoveAgent
<1>36. CASE Leave(c)
  <2>1. CASE client[c].op # "upgrade" BY <1>10, <1>36, <2>1 DEF Leave
  <2>2. CASE client[c].op = "upgrade"
    <3> DEFINE pc == IF client[c].report # "ok" /\ client[c].plug # client[c].version THEN "replug" ELSE "end"
    <3>1. client' = [client EXCEPT ![c] = [client[c] EXCEPT !.pc = pc]] BY <1>36, <2>2 DEF Leave
    <3>2. pc \in {"replug", "end"} OBVIOUS
    <3> HIDE DEF pc
    <3>3. client'[c].pc = pc BY <1>1, <3>1 DEF Command
    <3> QED BY <1>11, <3>2, <3>3
  <2> QED BY <2>1, <2>2
<1>37. NothingToDo(c) \/ End(c) => Done BY <1>10 DEF NothingToDo, End
<1> QED
  BY <1>9, <1>15, <1>16, <1>17, <1>18, <1>19, <1>20, <1>21, <1>22, <1>23, <1>24, <1>25, <1>26, <1>27,
     <1>28, <1>29, <1>30, <1>31, <1>32, <1>33, <1>34, <1>35, <1>36, <1>37, <1>39 DEF Deploys

\* What pm2 stop and pm2 start of a name do to the entry.
LEMMA TerminateShape ==
  ASSUME Typed, NEW status \in {"stopping", "deleting"}, Terminate(status)
  PROVE  /\ status = "stopping" => entry'.status \in {"stopping", "stopped"}
         /\ StoppedIsDead'
<1>1. entry \in Entry BY DEF Typed, World
<1>2. CASE entry.pid # NoPid
  <2>1. entry' = [entry EXCEPT !.status = status] BY <1>2 DEF Terminate
  <2>2. entry'.status = status BY <1>1, <2>1 DEF Entry
  <2> QED BY <2>2 DEF StoppedIsDead
<1>3. CASE entry.pid = NoPid /\ status = "deleting"
  <2>1. entry' = NoEntry BY <1>3 DEF Terminate
  <2> QED BY <1>3, <2>1 DEF StoppedIsDead, NoEntry
<1>4. CASE entry.pid = NoPid /\ status = "stopping"
  <2>1. entry' = [entry EXCEPT !.status = "stopped"] BY <1>4 DEF Terminate
  <2>2. entry'.status = "stopped" /\ entry'.pid = NoPid BY <1>1, <1>4, <2>1 DEF Entry
  <2> QED BY <2>2 DEF StoppedIsDead
<1> QED BY <1>2, <1>3, <1>4

LEMMA StartNameShape ==
  ASSUME Typed, StartName
  PROVE  entry'.status \in Live /\ StoppedIsDead'
<1>1. entry \in Entry BY DEF Typed, World
<1>2. entry.app \in Release BY <1>1 DEF Entry
<1>3. CASE Fork(entry.app)
  <2>1. entry'.status = "online" BY <1>2, <1>3, ForkEnv
  <2> QED BY <2>1 DEF Live, StoppedIsDead
<1>4. CASE entry' = [entry EXCEPT !.status = "restarting"]
  <2>1. entry'.status = "restarting" BY <1>1, <1>4 DEF Entry
  <2> QED BY <2>1 DEF Live, StoppedIsDead
<1> QED BY <1>3, <1>4 DEF StartName

LEMMA UpkeepUpholds ==
  ASSUME Typed, Upheld, NEW c \in Clients, Maintains(c)
  PROVE  StoppedIsDead' /\ last' <= seq'
<1>1. StoppedIsDead /\ last <= seq BY DEF Upheld
<1>2. last \in Nat /\ seq \in Nat BY Numbers
<1>3. StoppedIsDead'
  <2>1. CASE UNCHANGED daemonVars BY <1>1, <2>1 DEF daemonVars, StoppedIsDead
  <2>2. CASE Terminate("stopping") BY <2>2, TerminateShape
  <2>3. CASE StartName BY <2>3, StartNameShape
  <2> QED BY <2>1, <2>2, <2>3
      DEF Maintains, Order, AssertIdleBeforeGatewayStop, NoneToStop, RefuseToStop, StopGatewayForMaintenance,
          Halted, AssertNoRunsStartedSince, LookFirst, Begin, Commit, Rollback, Revive, Watch, Await, Offside, Call
<1>4. last' <= seq'
  <2>1. CASE UNCHANGED <<last, seq>> BY <1>1, <2>1
  <2>2. CASE Emptied BY <1>2, <2>2 DEF Emptied
  <2>3. CASE Restored
    <3>1. seq' \in Nat BY <1>2, <2>3 DEF Restored
    <3> QED BY <2>3, <3>1 DEF Restored
  <2> QED BY <2>1, <2>2, <2>3
      DEF Maintains, Order, AssertIdleBeforeGatewayStop, NoneToStop, RefuseToStop, StopGatewayForMaintenance,
          Halted, AssertNoRunsStartedSince, LookFirst, Begin, Commit, Rollback, Revive, Watch, Await, dbVars
<1> QED BY <1>3, <1>4

LEMMA UpkeepSeen ==
  ASSUME Typed, Upheld, NEW c \in Clients, Maintains(c)
  PROVE  Seen(client[c])' /\ Alone(c)'
<1> DEFINE Done == Seen(client[c])' /\ Alone(c)'
<1> SUFFICES Done
  OBVIOUS
<1>1. client \in [Clients -> Command] /\ client[c] \in Command BY DEF Typed
<1>2. client[c].was => client[c].pc \in WasStages BY DEF Typed
<1>3. Seen(client[c]) /\ Alone(c) BY DEF Upheld
<1>4. last \in Nat /\ seq \in Nat /\ client[c].baseline \in Nat /\ last <= seq BY Numbers DEF Upheld
<1>5. ASSUME client'[c].pc \in Elsewhere, client'[c].pc = "leave" => ~client'[c].was PROVE Done
  BY <1>5 DEF Seen, Alone, Elsewhere
<1>6. ASSUME NEW pc, Go(c, pc)
      PROVE  /\ client'[c].pc = pc /\ client'[c].was = client[c].was /\ client'[c].keep = client[c].keep
             /\ client'[c].report = client[c].report /\ client'[c].baseline = client[c].baseline
  BY <1>1, <1>6 DEF Go, Command
<1>7. ASSUME NEW report, Finish(c, report)
      PROVE  /\ client'[c].pc = "leave" /\ client'[c].was = client[c].was /\ client'[c].keep = client[c].keep
             /\ client'[c].report = report
  BY <1>1, <1>7 DEF Finish, Command
<1>8. ASSUME NEW report, Finish(c, report), ~client[c].was PROVE Done
  BY <1>5, <1>7, <1>8 DEF Elsewhere
<1>9. ASSUME Finish(c, "unrecovered") PROVE Done
  <2>1. client'[c].pc = "leave" /\ client'[c].report = "unrecovered" BY <1>7, <1>9
  <2> QED BY <2>1 DEF Seen, Alone
<1>10. ASSUME NEW report, report = "refused" \/ ~client[c].keep,
              client' = [client EXCEPT ![c].pc = "revive", ![c].report = report]
       PROVE  Done
  <2>1. client'[c].pc = "revive" /\ client'[c].report = report /\ client'[c].keep = client[c].keep
    BY <1>1, <1>10 DEF Command
  <2> QED BY <1>10, <2>1 DEF Seen, Alone
<1>11. ASSUME Back(c, "refused") PROVE Done
  <2>1. CASE client[c].was BY <1>10, <1>11, <2>1 DEF Back
  <2>2. CASE ~client[c].was BY <1>8, <1>11, <2>2 DEF Back
  <2> QED BY <2>1, <2>2
<1>12. ASSUME NEW report, report # "refused", Undo(c, report), UNCHANGED entry,
              client[c].pc \in {"assess", "begin", "commit"}
       PROVE  Done
  <2>1. CASE client[c].keep /\ client[c].was
    <3>1. Finish(c, report) BY <1>12, <2>1 DEF Undo
    <3>2. entry'.status = "stopped" BY <1>3, <1>12, <2>1 DEF Seen
    <3>3. client'[c].pc = "leave" /\ client'[c].keep /\ client'[c].report # "refused"
      BY <1>7, <1>12, <2>1, <3>1
    <3> QED BY <3>2, <3>3 DEF Seen, Alone
  <2>2. CASE ~client[c].keep /\ client[c].was
    <3>1. client' = [client EXCEPT ![c].pc = "revive", ![c].report = report] BY <1>12, <2>2 DEF Undo, Back
    <3> QED BY <1>10, <2>2, <3>1
  <2>3. CASE ~client[c].was
    <3>1. Finish(c, report) BY <1>12, <2>3 DEF Undo, Back
    <3> QED BY <1>8, <2>3, <3>1
  <2> QED BY <2>1, <2>2, <2>3
<1> HIDE DEF Done
<1>13. ASSUME NEW op \in Upkeep, NEW keep \in BOOLEAN, Order(c, op, keep) PROVE Done
  <2> DEFINE r == [Idle EXCEPT !.op = op, !.keep = keep, !.pc = "locking", !.paths = SavedManagementLockPaths]
  <2>1. client'[c] = r BY <1>1, <1>13 DEF Order
  <2>2. r.pc = "locking" BY IdleType DEF Command
  <2> HIDE DEF r
  <2> QED BY <1>5, <2>1, <2>2 DEF Elsewhere
<1>14. CASE AssertIdleBeforeGatewayStop(c)
  <2>1. ~client[c].was BY <1>2, <1>14 DEF AssertIdleBeforeGatewayStop, WasStages
  <2>2. CASE Finish(c, "refused") BY <1>8, <2>1, <2>2
  <2>3. CASE ~open /\ client' = [client EXCEPT ![c].pc = "halt", ![c].baseline = last] /\ cut' = FALSE
    <3>1. client'[c].pc = "halt" /\ client'[c].baseline = last BY <1>1, <2>3 DEF Command
    <3>2. UNCHANGED <<seq, open>> BY <1>14 DEF AssertIdleBeforeGatewayStop
    <3>3. SeenBefore(client[c])' BY <1>4, <2>3, <3>1, <3>2 DEF SeenBefore
    <3> QED BY <3>1, <3>3 DEF Done, Seen, Alone
  <2> QED BY <1>14, <2>2, <2>3 DEF AssertIdleBeforeGatewayStop
<1>15. CASE NoneToStop(c)
  <2>1. ~client[c].was BY <1>2, <1>15 DEF NoneToStop, WasStages
  <2>2. client'[c].pc = "since" /\ ~client'[c].was BY <1>6, <1>15, <2>1 DEF NoneToStop
  <2> QED BY <2>2 DEF Done, Seen, Alone
<1>16. CASE RefuseToStop(c)
  <2>1. ~client[c].was BY <1>2, <1>16 DEF RefuseToStop, WasStages
  <2> QED BY <1>8, <1>16, <2>1 DEF RefuseToStop
<1>17. CASE StopGatewayForMaintenance(c)
  <2>1. CASE Terminate("stopping") /\ client' = [client EXCEPT ![c].pc = "halting", ![c].was = TRUE]
    <3>1. client'[c].pc = "halting" /\ client'[c].baseline = client[c].baseline BY <1>1, <2>1 DEF Command
    <3>2. UNCHANGED <<last, seq, open, cut>> BY <1>17 DEF StopGatewayForMaintenance, dbVars
    <3>3. SeenBefore(client[c]) BY <1>3, <1>17 DEF Seen, StopGatewayForMaintenance
    <3>4. SeenBefore(client[c])' BY <3>1, <3>2, <3>3 DEF SeenBefore
    <3>5. entry'.status \in {"stopping", "stopped"} BY <2>1, TerminateShape
    <3> QED BY <3>1, <3>4, <3>5 DEF Done, Seen, Alone
  <2>2. CASE client' = [client EXCEPT ![c].pc = "revive", ![c].was = TRUE, ![c].report = "refused"]
    <3>1. client'[c].pc = "revive" /\ client'[c].report = "refused" BY <1>1, <2>2 DEF Command
    <3> QED BY <3>1 DEF Done, Seen, Alone
  <2> QED BY <1>17, <2>1, <2>2 DEF StopGatewayForMaintenance, Call
<1>18. CASE Halted(c)
  <2>1. client'[c].pc = "since" /\ client'[c].baseline = client[c].baseline BY <1>6, <1>18 DEF Halted
  <2>2. UNCHANGED <<entry, last, seq, open, cut>> BY <1>18 DEF Halted, Offside, daemonVars, dbVars
  <2>3. SeenBefore(client[c]) /\ entry.status = "stopped" BY <1>3, <1>18 DEF Seen, Halted
  <2> QED BY <2>1, <2>2, <2>3 DEF Done, Seen, SeenBefore, Alone
<1>19. CASE AssertNoRunsStartedSince(c)
  <2>1. CASE Back(c, "refused") BY <1>11, <2>1
  <2>2. ASSUME NEW pc \in {"assess", "begin"}, ~RunsStartedSince(c), Go(c, pc) PROVE Done
    <3>1. client'[c].pc = pc /\ client'[c].was = client[c].was BY <1>6, <2>2
    <3>2. UNCHANGED <<entry, cut>> BY <1>19 DEF AssertNoRunsStartedSince, Offside, daemonVars, dbVars
    <3>3. client[c].was => ~cut /\ entry.status = "stopped"
      BY <1>3, <1>19, <2>2 DEF Seen, RunsStartedSince, AssertNoRunsStartedSince
    <3> QED BY <2>2, <3>1, <3>2, <3>3 DEF Done, Seen, Alone
  <2>3. \/ Back(c, "refused")
        \/ \E pc \in {"assess", "begin"} : ~RunsStartedSince(c) /\ Go(c, pc)
    BY <1>19 DEF AssertNoRunsStartedSince
  <2> QED BY <2>1, <2>2, <2>3
<1>20. CASE LookFirst(c)
  <2>1. CASE Undo(c, "failed")
    BY <1>12, <1>20, <2>1 DEF LookFirst, Offside, daemonVars
  <2>2. CASE Go(c, "begin")
    <3>1. client'[c].pc = "begin" /\ client'[c].was = client[c].was BY <1>6, <2>2
    <3>2. UNCHANGED <<entry, cut>> BY <1>20 DEF LookFirst, Offside, daemonVars, dbVars
    <3> QED BY <1>3, <1>20, <3>1, <3>2 DEF LookFirst, Done, Seen, Alone
  <2> QED BY <1>20, <2>1, <2>2 DEF LookFirst
<1>21. CASE Begin(c)
  <2>0. UNCHANGED <<entry, proc, rows, open, cut>> BY <1>21 DEF Begin, Offside, daemonVars, lockVars
  <2>1. CASE Undo(c, "failed") BY <1>12, <1>21, <2>0, <2>1 DEF Begin
  <2>2. CASE ~Unsafe /\ snapshot' = rows /\ writer' = c /\ Go(c, "commit")
    <3>1. client'[c].pc = "commit" /\ client'[c].was = client[c].was BY <1>6, <2>2
    <3>2. ASSUME NEW p \in Pids, Works(p) PROVE FALSE
      <4>1. lock.pid = p /\ proc[p] # "gone" BY <3>2 DEF Typed, World, LockInv, Owned, Works
      <4> QED BY <2>2, <4>1 DEF Unsafe, IsAlive
    <3>3. \A p \in Pids : ~Works(p)' BY <2>0, <3>2 DEF Works
    <3>4. ~open' BY <2>0, <2>2 DEF Unsafe
    <3> QED BY <1>3, <1>21, <2>0, <2>2, <3>1, <3>3, <3>4 DEF Begin, Done, Seen, Alone
  <2> QED BY <1>21, <2>1, <2>2 DEF Begin, CheckAndSave
<1>22. CASE Commit(c) BY <1>12, <1>22 DEF Commit, daemonVars
<1>23. CASE Rollback(c) BY <1>12, <1>23 DEF Rollback, daemonVars
<1>24. CASE Revive(c)
  <2>1. CASE StartName /\ Go(c, "watch")
    <3>1. /\ client'[c].pc = "watch" /\ client'[c].keep = client[c].keep
          /\ client'[c].report = client[c].report
      BY <1>6, <2>1
    <3>2. entry'.status \in Live BY <2>1, StartNameShape
    <3> QED BY <1>3, <1>24, <3>1, <3>2 DEF Revive, Done, Seen, Alone
  <2>2. CASE Finish(c, "unrecovered") BY <1>9, <2>2
  <2> QED BY <1>24, <2>1, <2>2 DEF Revive, Call
<1>25. CASE Watch(c)
  <2>1. CASE entry.status = "online" /\ client' = [client EXCEPT ![c].pc = "await", ![c].pid = entry.pid]
    <3>1. /\ client'[c].pc = "await" /\ client'[c].keep = client[c].keep
          /\ client'[c].report = client[c].report
      BY <1>1, <2>1 DEF Command
    <3>2. entry'.status \in Live BY <1>25, <2>1 DEF Watch, Offside, daemonVars, Live
    <3> QED BY <1>3, <1>25, <3>1, <3>2 DEF Watch, Done, Seen, Alone
  <2>2. CASE Finish(c, "unrecovered") BY <1>9, <2>2
  <2> QED BY <1>25, <2>1, <2>2 DEF Watch
<1>26. CASE Await(c)
  <2>1. CASE Finish(c, client[c].report)
    <3>1. /\ client'[c].pc = "leave" /\ client'[c].keep = client[c].keep
          /\ client'[c].report = client[c].report
      BY <1>7, <2>1
    <3>2. entry' = entry BY <1>26 DEF Await, Offside, daemonVars
    <3> QED BY <1>3, <1>26, <3>1, <3>2 DEF Await, Done, Seen, Alone
  <2>2. CASE Finish(c, "unrecovered") BY <1>9, <2>2
  <2> QED BY <1>26, <2>1, <2>2 DEF Await
<1> QED BY <1>13, <1>14, <1>15, <1>16, <1>17, <1>18, <1>19, <1>20, <1>21, <1>22, <1>23, <1>24, <1>25, <1>26
        DEF Maintains

-----------------------------------------------------------------------------
(* The invariant.                                                          *)

LEMMA OthersStay ==
  ASSUME Typed, NEW d \in Clients, Deploys(d) \/ Maintains(d), NEW e \in Clients \ {d}
  PROVE  client'[e] = client[e]
<1>1. client \in [Clients -> Command] BY DEF Typed
<1>2. CASE Maintains(d) BY <1>2, UpkeepCalm DEF Calm
<1>3. \A pc, report : (Go(d, pc) \/ Finish(d, report)) => client'[e] = client[e]
  BY <1>1 DEF Go, Finish
<1>4. Fails(d) => client'[e] = client[e] BY <1>3 DEF Fails
<1>5. CASE \/ \E target \in Targets : Request(d, target)
           \/ NothingToDo(d) \/ UpgradePlugin(d) \/ RollbackPlugin(d)
           \/ TakeLock(d) \/ FindsBusy(d) \/ Refuse(d) \/ Check(d) \/ Leave(d) \/ End(d)
  BY <1>1, <1>3, <1>5 DEF Request, NothingToDo, UpgradePlugin, RollbackPlugin, InstallPlugin, TakeLock,
     FindsBusy, Refuse, Check, Leave, End
<1>6. CASE \/ Delete(d) \/ Deleted(d) \/ Start(d) \/ Look(d) \/ WaitForGatewayReady(d) \/ CheckVersion(d)
           \/ SavePm2State(d) \/ WriteRunningVersion(d) \/ Clean(d) \/ Cleaned(d) \/ GoBack(d) \/ Forget(d)
  BY <1>1, <1>3, <1>4, <1>6 DEF Delete, Deleted, Start, Look, WaitForGatewayReady, CheckVersion, SavePm2State,
     WriteRunningVersion, Clean, Cleaned, GoBack, Forget, Call
<1>7. CASE WriteAgent(d) \/ Bootstrap(d) \/ RollbackAgent(d) \/ RemoveAgent(d)
  BY <1>1, <1>3, <1>7 DEF WriteAgent, Bootstrap, RollbackAgent, RemoveAgent
<1>8. CASE Deploys(d) BY <1>5, <1>6, <1>7, <1>8 DEF Deploys
<1> QED BY <1>2, <1>8

\* Who is outside is promised nothing.
LEMMA OutsideUpheld ==
  ASSUME NEW c \in Clients, ~Inside(client[c]), client'[c] = client[c]
  PROVE  Seen(client[c])' /\ Alone(c)'
<1>1. PICK r : r = client[c] OBVIOUS
<1>2. Seen(r)' BY <1>1, OutsideSeen
<1>3. client[c].pc # "commit" BY DEF Inside, Away
<1> QED BY <1>1, <1>2, <1>3 DEF Alone

\* A command does nothing to the world of another that is inside.
LEMMA OthersUpheld ==
  ASSUME GInv, NEW d \in Clients, (Deploys(d) /\ UNCHANGED dbVars) \/ Maintains(d), NEW c \in Clients \ {d}
  PROVE  Seen(client[c])' /\ Alone(c)'
<1>1. Typed /\ Held /\ Upheld BY DEF GInv, MInv
<1>2. client'[c] = client[c] BY <1>1, OthersStay
<1>3. CASE ~Inside(client[c]) BY <1>2, <1>3, OutsideUpheld
<1>4. CASE Inside(client[c])
  <2>1. ~Inside(client[d]) BY <1>1, <1>4, InsideAlone
  <2>2. client[d].pc \in Away BY <2>1 DEF Inside
  <2>3. UNCHANGED <<lockVars, daemonVars, dbVars>> BY <1>1, <2>2, OutsideQuiet
  <2>4. Env(c) BY <1>1, <2>3, QuietEnv DEF dbVars
  <2> QED BY <1>1, <1>2, <2>4, EnvSeen
<1> QED BY <1>3, <1>4

LEMMA DeployUpholds ==
  ASSUME Typed, StoppedIsDead, NEW d \in Clients, Deploys(d)
  PROVE  StoppedIsDead'
<1>1. client[d] \in Command BY DEF Typed
<1>2. CASE UNCHANGED entry BY <1>2 DEF StoppedIsDead
<1>3. CASE Terminate("deleting") BY <1>3, TerminateShape
<1>4. CASE StartScript(Target(d))
  <2>1. PICK app \in Release : Fork(app)
    BY <1>1, <1>4 DEF StartScript, Target, Command, Typed, World, Entry
  <2>2. entry'.status = "online" BY <2>1, ForkEnv
  <2> QED BY <2>2 DEF StoppedIsDead
<1>5. Delete(d) \/ Clean(d) => UNCHANGED entry \/ Terminate("deleting")
  BY DEF Delete, Clean, Call, daemonVars
<1>6. Start(d) => UNCHANGED entry \/ StartScript(Target(d)) BY DEF Start, Call, daemonVars
<1>7. SavePm2State(d) \/ Forget(d) => UNCHANGED entry BY DEF SavePm2State, Forget, Call, Save, daemonVars
<1>8. \/ \E target \in Targets : Request(d, target)
      \/ NothingToDo(d) \/ UpgradePlugin(d) \/ RollbackPlugin(d)
      \/ TakeLock(d) \/ FindsBusy(d) \/ Refuse(d) \/ Check(d) \/ Leave(d) \/ End(d)
      => UNCHANGED entry
  BY DEF Request, NothingToDo, UpgradePlugin, RollbackPlugin, InstallPlugin, TakeLock, FindsBusy, Refuse,
     Check, Leave, End, Aside, daemonVars
<1>9. \/ Deleted(d) \/ Look(d) \/ WaitForGatewayReady(d) \/ CheckVersion(d) \/ WriteRunningVersion(d) \/ Cleaned(d)
      \/ GoBack(d) \/ WriteAgent(d) \/ Bootstrap(d) \/ RollbackAgent(d) \/ RemoveAgent(d)
      => UNCHANGED entry
  BY DEF Deleted, Look, WaitForGatewayReady, CheckVersion, WriteRunningVersion, Cleaned, GoBack, WriteAgent, Bootstrap,
     RollbackAgent, RemoveAgent, Aside, Unchanging, daemonVars
<1> QED BY <1>2, <1>3, <1>4, <1>5, <1>6, <1>7, <1>8, <1>9 DEF Deploys

LEMMA DeployingUpheld ==
  ASSUME GInv, Deploying
  PROVE  Upheld'
<1>1. Typed /\ Upheld BY DEF GInv, MInv
<1>2. PICK d \in Clients : Deploys(d) /\ UNCHANGED dbVars BY DEF Deploying
<1>3. last' <= seq' /\ StoppedIsDead' BY <1>1, <1>2, DeployUpholds DEF Upheld, dbVars
<1>4. Seen(client[d])' /\ Alone(d)'
  <2>1. client'[d].pc \in Elsewhere /\ (client'[d].pc = "leave" => ~client'[d].was)
    BY <1>1, <1>2, DeployStays
  <2> QED BY <2>1 DEF Seen, Alone, Elsewhere
<1>5. \A c \in Clients \ {d} : Seen(client[c])' /\ Alone(c)' BY <1>2, OthersUpheld
<1> QED BY <1>3, <1>4, <1>5 DEF Upheld

LEMMA MaintainingUpheld ==
  ASSUME GInv, Maintaining
  PROVE  Upheld'
<1>1. Typed /\ Upheld BY DEF GInv, MInv
<1>2. PICK d \in Clients : Maintains(d) BY DEF Maintaining
<1>3. last' <= seq' /\ StoppedIsDead' BY <1>1, <1>2, UpkeepUpholds
<1>4. Seen(client[d])' /\ Alone(d)' BY <1>1, <1>2, UpkeepSeen
<1>5. \A c \in Clients \ {d} : Seen(client[c])' /\ Alone(c)' BY <1>2, OthersUpheld
<1> QED BY <1>3, <1>4, <1>5 DEF Upheld

LEMMA ListingUpheld ==
  ASSUME GInv, Listing
  PROVE  Upheld'
<1>1. Typed /\ Held /\ Upheld BY DEF GInv, MInv
<1>2. UNCHANGED <<rows, last, seq, open, cut, writer, snapshot>> /\ UNCHANGED dbVars BY DEF Listing, dbVars
<1>3. last' <= seq' BY <1>1, <1>2 DEF Upheld
<1>4. UNCHANGED client BY DEF Listing, Daemon, Supervisor, Supervise, Resurrect
<1>5. CASE Daemon
  <2>1. ASSUME NEW c \in Clients PROVE Seen(client[c])' /\ Alone(c)'
    <3>1. Env(c) BY <1>1, <1>2, <1>5, DaemonEnv DEF Upheld
    <3> QED BY <1>1, <1>4, <3>1, EnvSeen
  <2>2. StoppedIsDead' BY <1>1, <1>2, <1>5, DaemonEnv DEF Upheld
  <2> QED BY <1>3, <2>1, <2>2 DEF Upheld
<1>6. CASE UNCHANGED <<lockVars, daemonVars>>
  <2>1. StoppedIsDead' BY <1>1, <1>6 DEF Upheld, StoppedIsDead, daemonVars
  <2>2. ASSUME NEW c \in Clients PROVE Seen(client[c])' /\ Alone(c)'
    <3>1. Env(c) BY <1>1, <1>2, <1>6, QuietEnv
    <3> QED BY <1>1, <1>4, <3>1, EnvSeen
  <2> QED BY <1>3, <2>1, <2>2 DEF Upheld
<1>7. CASE sup = "missing" /\ Fork(dump)
  <2>1. dump \in Release BY <1>1 DEF Typed, World
  <2>2. entry'.status = "online" BY <1>1, <1>7, <2>1, ForkEnv
  <2>3. \A c \in Clients : ~Inside(client[c]) BY <1>1, <1>7, InsideAlone
  <2>4. \A c \in Clients : Seen(client[c])' /\ Alone(c)' BY <1>4, <2>3, OutsideUpheld
  <2> QED BY <1>3, <2>2, <2>4 DEF Upheld, StoppedIsDead
<1> QED BY <1>5, <1>6, <1>7 DEF Listing, Supervisor, Supervise, Resurrect

LEMMA WorkingUpheld ==
  ASSUME GInv, Working
  PROVE  Upheld'
<1>1. Typed /\ Upheld BY DEF GInv, MInv
<1>2. UNCHANGED client BY DEF Working, GatewayAndOthers, Processes, Database
<1>3. last <= seq /\ StoppedIsDead BY <1>1 DEF Upheld
<1>4. StoppedIsDead' /\ last' <= seq' BY <1>1, <1>3, WorkEnv, "supervisor" # "nobody" DEF Working
<1>5. ASSUME NEW c \in Clients PROVE Seen(client[c])' /\ Alone(c)'
  <2>1. Env(c) BY <1>1, <1>3, Pm2Constants, WorkEnv DEF Working
  <2> QED BY <1>1, <1>2, <2>1, EnvSeen
<1> QED BY <1>4, <1>5 DEF Upheld

LEMMA KillUpheld ==
  ASSUME GInv, NEW d \in Clients, Kill(d)
  PROVE  Upheld'
<1>1. Typed /\ Upheld BY DEF GInv, MInv
<1>2. /\ UNCHANGED <<lockVars, daemonVars, rows, last, seq, open, cut, snapshot>>
      /\ client' = [client EXCEPT ![d] = Idle] /\ client \in [Clients -> Command]
  BY <1>1 DEF Kill, Killed, Typed
<1>3. last' <= seq' /\ StoppedIsDead' BY <1>1, <1>2 DEF Upheld, StoppedIsDead, daemonVars
<1>4. ASSUME NEW c \in Clients PROVE Seen(client[c])' /\ Alone(c)'
  <2>1. CASE c = d
    <3>1. client'[c].pc = "idle" BY <1>2, <2>1, IdleType
    <3> QED BY <3>1 DEF Seen, Alone
  <2>2. CASE c # d
    <3>1. writer = c => writer' = c BY <2>2 DEF Kill
    <3>2. Env(c) BY <1>1, <1>2, <3>1, QuietEnv
    <3> QED BY <1>1, <1>2, <2>2, <3>2, EnvSeen
  <2> QED BY <2>1, <2>2
<1> QED BY <1>3, <1>4 DEF Upheld

LEMMA RebootUpheld ==
  ASSUME GInv, PowerFails
  PROVE  Upheld'
<1>1. last <= seq BY DEF GInv, Upheld
<1>2. \A c \in Clients : client'[c].pc = "idle" BY IdleType DEF PowerFails, Reboot
<1>3. entry' = NoEntry /\ UNCHANGED <<last, seq>> BY DEF PowerFails, Reboot
<1> QED BY <1>1, <1>2, <1>3 DEF Upheld, StoppedIsDead, NoEntry, Seen, Alone

LEMMA InitUpheld == Init => Upheld
<1> SUFFICES ASSUME Init PROVE Upheld
  OBVIOUS
<1>1. last <= seq BY MaintenanceConstants DEF Init, DbInit
<1>2. entry.status # "stopped" BY DEF Init, NotInstalled, Pm2Init, Installed, NoEntry
<1>3. \A c \in Clients : client[c].pc = "idle" BY IdleType DEF Init, NotInstalled, Pm2Init, Installed
<1> QED BY <1>1, <1>2, <1>3 DEF Upheld, StoppedIsDead, Seen, Alone

LEMMA NextUpheld == GInv /\ [Next]_vars => GInv'
<1> SUFFICES ASSUME GInv, [Next]_vars PROVE GInv'
  OBVIOUS
<1>1. MInv' BY NextHeld DEF GInv
<1>2. CASE UNCHANGED vars
  <2>1. UNCHANGED <<entry, proc, client, rows, last, seq, open, cut, writer, snapshot>>
    BY <1>2 DEF vars, pm2Vars, lockVars, daemonVars, dbVars
  <2>2. last' <= seq' /\ StoppedIsDead' BY <2>1 DEF GInv, Upheld, StoppedIsDead
  <2>3. ASSUME NEW c \in Clients PROVE Seen(client[c])' /\ Alone(c)'
    <3>1. Seen(client[c]) /\ Alone(c) BY DEF GInv, Upheld
    <3> QED BY <2>1, <3>1 DEF Seen, SeenBefore, Alone, Works
  <2> QED BY <1>1, <2>2, <2>3 DEF GInv, Upheld
<1>3. CASE Next
  <2>1. Upheld'
    BY <1>3, DeployingUpheld, MaintainingUpheld, ListingUpheld, WorkingUpheld, KillUpheld, RebootUpheld DEF Next
  <2> QED BY <1>1, <2>1 DEF GInv
<1> QED BY <1>2, <1>3

(* Every reachable state satisfies the invariant, from which the theorems  *)
(* below follow: what a command may rely on from its look at the work to   *)
(* its report (withGatewayMaintenance in cli/index.ts).                    *)
THEOREM MaintenanceInvariance == Spec => []GInv
<1>1. Init => GInv BY InitHeld, InitUpheld DEF GInv
<1> QED BY <1>1, NextUpheld, PTL DEF Spec

(* When the database is emptied or replaced nobody works on it, nothing is *)
(* recorded as running, and the stop cut no run off, for any number of     *)
(* Gateways, commands, runs and faults (withGatewayMaintenance).           *)
THEOREM AlwaysMaintainedAlone == Spec => []MaintenanceAlone
<1>1. GInv => MaintenanceAlone BY DEF GInv, Upheld, Seen, Alone, MaintenanceAlone
<1> QED BY <1>1, MaintenanceInvariance, PTL

(* A Gateway that a command stopped runs when it reports, or is stopped as *)
(* asked, or the report says that it could not be started again.           *)
THEOREM GatewayAlwaysComesBack == Spec => []GatewayComesBack
<1>1. GInv => GatewayComesBack BY DEF GInv, Upheld, Seen, Live, GatewayComesBack
<1> QED BY <1>1, MaintenanceInvariance, PTL

(* No task is lost that a safety backup does not hold, however many tasks  *)
(* are added and whoever clears and restores (clear and restore in         *)
(* database-maintenance.service.ts, the same on the Dashboard).            *)
THEOREM NothingLost == Spec => LossIsBackedUp
<1> DEFINE Kept == rows \ rows' \subseteq snapshot'
<1>1. ASSUME GInv, [Next]_vars PROVE Kept
  <2>1. CASE UNCHANGED rows BY <2>1
  <2>2. CASE \E c \in Clients : Maintains(c)
    <3>1. PICK c \in Clients : Maintains(c) BY <2>2
    <3>2. CASE Commit(c)
      <4>1. rows \subseteq snapshot /\ UNCHANGED snapshot BY <1>1, <3>2 DEF Commit, GInv, Upheld, Alone
      <4> QED BY <4>1
    <3>3. CASE UNCHANGED rows BY <3>3
    <3> QED
      BY <3>1, <3>2, <3>3
      DEF Maintains, Order, AssertIdleBeforeGatewayStop, NoneToStop, RefuseToStop, StopGatewayForMaintenance,
          Halted, AssertNoRunsStartedSince, LookFirst, Begin, Rollback, Revive, Watch, Await, dbVars
  <2>3. CASE Database
    <3>1. AddTask => Kept BY DEF AddTask
    <3>2. \A p \in Pids : StartRun(p) \/ EndRun(p) => UNCHANGED rows BY DEF StartRun, EndRun
    <3>3. \A p \in Pids : DashboardClear(p) => snapshot' = rows BY DEF DashboardClear
    <3> QED BY <2>3, <3>1, <3>2, <3>3 DEF Database
  <2> QED
    BY <1>1, <2>1, <2>2, <2>3
    DEF Next, Deploying, Maintaining, Listing, Working, GatewayAndOthers, Kill, PowerFails, vars, dbVars
<1>2. GInv /\ [Next]_vars => [Kept]_dbVars BY <1>1
<1> HIDE DEF Kept
<1>3. Spec => [][Kept]_dbVars BY <1>2, MaintenanceInvariance, PTL DEF Spec
<1> QED BY <1>3 DEF LossIsBackedUp, Kept
=============================================================================
