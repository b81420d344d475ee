-------------------------- MODULE ManagementProofs --------------------------
(***************************************************************************)
(* Proofs about Management, for any number of processes, releases,         *)
(* commands, tasks and faults.                                             *)
(***************************************************************************)
EXTENDS Management, GatewayLockProofs

-----------------------------------------------------------------------------
(* The world: processes, the lock, PM2.                                    *)

World == LockInv /\ entry \in Entry /\ dump \in Release

LEMMA FaultType ==
  ASSUME faults \in 0 .. MaxFaults, Fault
  PROVE  faults' \in 0 .. MaxFaults
BY Pm2Constants DEF Fault

LEMMA SpawnInv ==
  ASSUME LockInv, NEW p \in Pids, NEW phase \in {"other", "elsewhere", "boot"}, NEW v \in Release,
         Spawn(p, phase, v)
  PROVE  LockInv'
<1> USE DEF LockInv, LockTypeOK, Owned, Works
<1>1. /\ proc' = [proc EXCEPT ![p] = phase] /\ lock' = lock
      /\ image' = [image EXCEPT ![p] = IF phase = "boot" THEN v ELSE NoVersion]
  BY DEF Spawn, Become
<1>2. LockTypeOK' BY <1>1 DEF Phases, Release
<1> QED BY <1>1, <1>2

LEMMA ForkWorld ==
  ASSUME World, NEW app \in Release, Fork(app)
  PROVE  LockInv' /\ entry' \in Entry
<1>1. PICK p \in Pids : Spawn(p, "boot", app) /\ entry' = [app |-> app, status |-> "online", pid |-> p]
  BY DEF Fork
<1> QED BY <1>1, SpawnInv DEF World, Entry, Statuses

LEMMA SameWorld ==
  ASSUME World, UNCHANGED <<lockVars, daemonVars>>
  PROVE  World'
BY DEF World, LockInv, LockTypeOK, Owned, Works, lockVars, daemonVars

LEMMA EntryWorld ==
  ASSUME World, UNCHANGED <<lockVars, dump>>, entry' \in Entry
  PROVE  World'
BY DEF World, LockInv, LockTypeOK, Owned, Works, lockVars

LEMMA TerminateWorld ==
  ASSUME World, NEW status \in {"stopping", "deleting"}, Terminate(status)
  PROVE  World'
<1>1. entry' \in Entry BY DEF Terminate, World, Entry, NoEntry, Statuses, Release
<1> QED BY <1>1, EntryWorld DEF Terminate

LEMMA StartScriptWorld ==
  ASSUME World, NEW app \in Release, StartScript(app)
  PROVE  World'
<1>1. entry.app \in Release BY DEF World, Entry
<1>2. LockInv' /\ entry' \in Entry
  BY <1>1, ForkWorld DEF StartScript
<1> QED BY <1>2 DEF StartScript, World

LEMMA StartNameWorld ==
  ASSUME World, StartName
  PROVE  World'
<1>1. entry.app \in Release BY DEF World, Entry
<1>2. CASE Fork(entry.app) BY <1>1, <1>2, ForkWorld DEF StartName, World
<1>3. CASE entry' = [entry EXCEPT !.status = "restarting"] /\ UNCHANGED lockVars
  <2>1. entry' \in Entry BY <1>3 DEF World, Entry, Statuses
  <2> QED BY <1>3, <2>1, EntryWorld DEF StartName
<1> QED BY <1>2, <1>3 DEF StartName

LEMMA SaveWorld ==
  ASSUME World, Save
  PROVE  World'
BY DEF Save, World, Entry, LockInv, LockTypeOK, Owned, Works, lockVars

\* A Gateway that is killed, or a machine.
LEMMA RebootWorld ==
  ASSUME World, Reboot
  PROVE  World'
<1>1. LockInv' BY DEF Reboot, World, LockInv, LockTypeOK, Owned, Works, Phases
<1> QED BY <1>1 DEF Reboot, World, Entry, NoEntry, Statuses, Release

LEMMA DaemonWorld ==
  ASSUME World, faults \in 0 .. MaxFaults, Daemon
  PROVE  World' /\ faults' \in 0 .. MaxFaults
<1>1. CASE Reap
  <2>1. entry' \in Entry BY <1>1 DEF Reap, World, Entry, NoEntry, Statuses, Release
  <2> QED BY <1>1, <2>1, EntryWorld DEF Reap
<1>2. CASE Restart
  <2>1. entry.app \in Release BY DEF World, Entry
  <2> QED BY <1>2, <2>1, ForkWorld DEF Restart, World
<1>3. CASE GiveUp
  <2>1. entry' \in Entry BY <1>3 DEF GiveUp, World, Entry, Statuses
  <2> QED BY <1>3, <2>1, EntryWorld, FaultType DEF GiveUp
<1> QED BY <1>1, <1>2, <1>3 DEF Daemon

\* A Gateway or another process takes a step of GatewayLock.
LEMMA ProcessWorld ==
  ASSUME World, faults \in 0 .. MaxFaults, Processes
  PROVE  World' /\ faults' \in 0 .. MaxFaults
<1>1. World => LockInv BY DEF World
<1>2. ASSUME NEW p \in Pids, Runs(p) PROVE World' /\ faults' \in 0 .. MaxFaults
  <2>1. GatewayStep(p) \/ Die(p) BY <1>2 DEF Runs, Heed, GatewayStep
  <2>2. LockInv' BY <1>1, <2>1, StepLock DEF LockNext
  <2> QED BY <1>2, <2>2 DEF Runs, World, daemonVars
<1>3. ASSUME NEW p \in Pids, Strikes(p) PROVE World' /\ faults' \in 0 .. MaxFaults
  <2>1. LockInv'
    <3>1. CASE Die(p) \/ BeginShutdown(p) BY <1>1, <3>1, StepLock DEF LockNext, GatewayStep
    <3>2. ASSUME NEW v \in Versions \cup {NoVersion}, NEW phase \in {"boot", "other", "elsewhere"}, Spawn(p, phase, v)
          PROVE  LockInv'
      BY <1>1, <3>2, SpawnInv DEF Release
    <3> QED BY <1>3, <3>1, <3>2 DEF Strikes
  <2> QED BY <1>3, <2>1, FaultType DEF Strikes, World, daemonVars
<1>4. ASSUME NEW p \in Pids, Die(p), UNCHANGED <<daemonVars, faults>> PROVE World' /\ faults' \in 0 .. MaxFaults
  <2>1. LockInv' BY <1>1, <1>4, StepLock DEF LockNext
  <2> QED BY <1>4, <2>1 DEF World, daemonVars
<1>5. CASE Age /\ UNCHANGED <<daemonVars, faults>>
  <2>1. LockInv' BY <1>1, <1>5, StepLock DEF LockNext
  <2> QED BY <1>5, <2>1 DEF World, daemonVars
<1> QED BY <1>2, <1>3, <1>4, <1>5 DEF Processes

-----------------------------------------------------------------------------
(* Commands.                                                               *)

Away == {"idle", "plugin", "replug", "locking", "leave", "end"}

\* Where a command may be that has made PM2 stop the Gateway.
WasStages ==
  {"halting", "since", "assess", "begin", "commit", "revive", "watch", "await", "leave", "replug", "end"}

\* A command that holds all its locks; one that found somebody else busy
\* leaves with some of them at most, and did not stop the Gateway.
Inside(r) == r.pc \notin Away \/ (r.pc = "leave" /\ (r.was \/ r.report # "busy"))

\* A step of one command that leaves locks and agents alone.  It is where
\* it was with respect to the locks, or makes up its mind about them.
Calm(c) ==
  /\ UNCHANGED <<agentVars, locks>>
  /\ client' \in [Clients -> Command]
  /\ \A d \in Clients \ {c} : client'[d] = client[d]
  /\ client'[c].pc # "boot"
  /\ Inside(client'[c]) => Inside(client[c]) /\ client'[c].paths = client[c].paths
  /\ client'[c].was => client'[c].pc \in WasStages
  /\ client'[c].pc = "locking" => client'[c].paths = SavedManagementLockPaths

LEMMA TurnCalm ==
  ASSUME client \in [Clients -> Command], NEW c \in Clients, NEW r \in Command,
         client' = [client EXCEPT ![c] = r],
         r.pc # "boot",
         Inside(r) => Inside(client[c]) /\ r.paths = client[c].paths,
         r.was => r.pc \in WasStages,
         r.pc = "locking" => r.paths = SavedManagementLockPaths,
         UNCHANGED <<agentVars, locks>>
  PROVE  Calm(c)
BY DEF Calm

LEMMA GoCalm ==
  ASSUME client \in [Clients -> Command], NEW c \in Clients, NEW pc \in Stages, Go(c, pc),
         pc \notin {"boot", "locking", "leave"}, pc \in Away \/ client[c].pc \notin Away,
         client[c].was => pc \in WasStages,
         UNCHANGED <<agentVars, locks>>
  PROVE  Calm(c)
<1> DEFINE r == [client[c] EXCEPT !.pc = pc]
<1>1. client' = [client EXCEPT ![c] = r] BY DEF Go
<1>2. r \in Command /\ r.pc = pc /\ r.paths = client[c].paths /\ r.was = client[c].was BY DEF Command
<1> HIDE DEF r
<1> QED BY <1>1, <1>2, TurnCalm DEF Inside

LEMMA FinishCalm ==
  ASSUME client \in [Clients -> Command], NEW c \in Clients, NEW report \in Results, Finish(c, report),
         client[c].pc \notin Away, UNCHANGED <<agentVars, locks>>
  PROVE  Calm(c)
<1> DEFINE r == [client[c] EXCEPT !.pc = "leave", !.report = report]
<1>1. client' = [client EXCEPT ![c] = r] BY DEF Finish
<1>2. "leave" \in Stages BY DEF Stages
<1>3. r \in Command /\ r.pc = "leave" /\ r.paths = client[c].paths BY <1>2 DEF Command
<1> HIDE DEF r
<1> QED BY <1>1, <1>3, TurnCalm DEF Inside, WasStages

LEMMA MarkCalm ==
  ASSUME client \in [Clients -> Command], NEW c \in Clients, NEW pc \in Stages, NEW report \in Results,
         client' = [client EXCEPT ![c].pc = pc, ![c].report = report],
         pc \notin {"boot", "locking"},
         (pc \in Away /\ (pc = "leave" => ~client[c].was /\ report = "busy")) \/ client[c].pc \notin Away,
         client[c].was => pc \in WasStages,
         UNCHANGED <<agentVars, locks>>
  PROVE  Calm(c)
<1> DEFINE r == [client[c] EXCEPT !.pc = pc, !.report = report]
<1>1. client' = [client EXCEPT ![c] = r] OBVIOUS
<1>2. r \in Command /\ r.pc = pc /\ r.report = report /\ r.paths = client[c].paths /\ r.was = client[c].was
  BY DEF Command
<1> HIDE DEF r
<1> QED BY <1>1, <1>2, TurnCalm DEF Inside

LEMMA AskCalm ==
  ASSUME client \in [Clients -> Command], NEW c \in Clients,
         client' = [client EXCEPT ![c].pc = "locking", ![c].paths = SavedManagementLockPaths],
         ~client[c].was, UNCHANGED <<agentVars, locks>>
  PROVE  Calm(c)
<1> DEFINE r == [client[c] EXCEPT !.pc = "locking", !.paths = SavedManagementLockPaths]
<1>1. client' = [client EXCEPT ![c] = r] OBVIOUS
<1>2. "locking" \in Stages /\ "locking" \in Away BY DEF Stages, Away
<1>3. SavedManagementLockPaths \in SUBSET LockPaths BY DEF SavedManagementLockPaths, LockPaths
<1>4. r \in Command /\ r.pc = "locking" /\ r.paths = SavedManagementLockPaths /\ ~r.was
  BY <1>2, <1>3 DEF Command
<1> HIDE DEF r
<1> QED BY <1>1, <1>2, <1>4, TurnCalm DEF Inside

LEMMA IdleType == Idle \in Command /\ Idle.pc = "idle" /\ ~Idle.was
BY DEF Idle, Command, Ops, Release, Agents, Stages, Results

LEMMA IdleCalm ==
  ASSUME client \in [Clients -> Command], NEW c \in Clients, client' = [client EXCEPT ![c] = Idle],
         UNCHANGED <<agentVars, locks>>
  PROVE  Calm(c)
BY IdleType, TurnCalm DEF Away, Inside

-----------------------------------------------------------------------------
(* Commands that change what PM2 runs.                                     *)

Typed ==
  /\ World
  /\ faults \in 0 .. MaxFaults
  /\ client \in [Clients -> Command]
  /\ DeployTypeOK /\ DbTypeOK
  /\ plist \in Agents /\ agent \in Agents /\ sup \in {"idle", "missing"}
  /\ locks \in [LockPaths -> Clients \cup {"supervisor", "nobody"}]
  /\ \A c \in Clients : client[c].was => client[c].pc \in WasStages

LEMMA AsideKeeps ==
  ASSUME Typed, Aside
  PROVE  World' /\ faults' \in 0 .. MaxFaults /\ DeployTypeOK'
BY SameWorld DEF Aside, Typed, DeployTypeOK, deployVars

Orderly(c) == World' /\ faults' \in 0 .. MaxFaults /\ DeployTypeOK' /\ Calm(c)

LEMMA RequestOrderly ==
  ASSUME Typed, NEW c \in Clients, NEW target \in Targets, Request(c, target)
  PROVE  Orderly(c)
<1> DEFINE pc == IF target.op = "upgrade" THEN "plugin" ELSE "locking"
           r == NewCommand(target, pc)
<1>1. client' = [client EXCEPT ![c] = r] BY DEF Request
<1>2. pc \in Stages /\ pc \in Away BY DEF Stages, Away
<1>3. SavedManagementLockPaths \in SUBSET LockPaths BY DEF SavedManagementLockPaths, LockPaths
<1>4. target \in [op : Ops, app : Release, version : Release] BY DeploymentConstants DEF Release
<1>5. plugin \in Release BY DEF Typed, DeployTypeOK
<1> HIDE DEF pc
<1>6. /\ r \in Command /\ r.pc = pc /\ r.paths = SavedManagementLockPaths /\ ~r.was
  <2>1. target.op \in Ops /\ target.app \in Release /\ target.version \in Release BY <1>4
  <2> QED BY <1>2, <1>3, <1>5, <2>1, IdleType DEF NewCommand, Command
<1> HIDE DEF r
<1>7. pc \in {"plugin", "locking"} BY DEF pc
<1>8. Calm(c) BY <1>1, <1>2, <1>6, <1>7, TurnCalm DEF Typed, Request, Aside, Inside
<1> QED BY <1>8, AsideKeeps DEF Request, Orderly

\* Facts about strings.
LEMMA StageNames ==
  /\ {"idle", "plugin", "replug", "locking", "leave", "end", "enter"} \subseteq Stages
  /\ {"delete", "deleting", "start", "look", "ready", "version", "save", "note", "clean", "cleaning",
      "restore", "forget", "agent", "boot", "unload"} \subseteq Stages
  /\ {"halt", "halting", "since", "assess", "begin", "commit", "revive", "watch", "await"} \subseteq Stages
BY DEF Stages

LEMMA ResultNames ==
  {"none", "busy", "refused", "already", "ok", "failed", "rolledback", "incomplete", "unrecovered"}
    \subseteq Results
BY DEF Results

LEMMA PluginOrderly ==
  ASSUME Typed, NEW c \in Clients, NothingToDo(c) \/ UpgradePlugin(c) \/ RollbackPlugin(c)
  PROVE  Orderly(c)
<1> USE DEF Orderly
<1>1. CASE NothingToDo(c)
  <2>1. Calm(c) BY <1>1, IdleCalm DEF NothingToDo, Typed, Aside
  <2> QED BY <1>1, <2>1, AsideKeeps DEF NothingToDo
<1>2. ASSUME NEW version \in Release, plugin' \in {plugin, version}, UNCHANGED faults \/ Fault,
             UNCHANGED <<lockVars, daemonVars, noted>>
      PROVE  World' /\ faults' \in 0 .. MaxFaults /\ DeployTypeOK'
  BY <1>2, SameWorld, FaultType DEF Typed, DeployTypeOK
<1>4. client[c] \in Command BY DEF Typed
<1>5. CASE UpgradePlugin(c)
  <2>1. client[c].version \in Release BY <1>4 DEF Command
  <2>2. /\ World' /\ faults' \in 0 .. MaxFaults /\ DeployTypeOK'
        /\ UNCHANGED <<agentVars, locks>>
        /\ \/ client' = [client EXCEPT ![c].pc = "locking", ![c].paths = SavedManagementLockPaths]
           \/ client' = [client EXCEPT ![c].pc = "replug", ![c].report = "failed"]
    BY <1>2, <1>5, <2>1 DEF UpgradePlugin, InstallPlugin
  <2>3. Calm(c)
    <3>1. CASE client' = [client EXCEPT ![c].pc = "locking", ![c].paths = SavedManagementLockPaths]
      BY <1>5, <2>2, <3>1, AskCalm DEF Typed, UpgradePlugin, WasStages
    <3>2. CASE client' = [client EXCEPT ![c].pc = "replug", ![c].report = "failed"]
      BY <2>2, <3>2, MarkCalm, ResultNames, StageNames DEF Away, Typed, WasStages
    <3> QED BY <2>2, <3>1, <3>2
  <2> QED BY <2>2, <2>3
<1>6. CASE RollbackPlugin(c)
  <2>1. client[c].plug \in Release BY <1>4 DEF Command
  <2>2. /\ World' /\ faults' \in 0 .. MaxFaults /\ DeployTypeOK'
        /\ UNCHANGED <<agentVars, locks>>
        /\ \/ Go(c, "end")
           \/ client' = [client EXCEPT ![c].pc = "end", ![c].report = "unrecovered"]
    BY <1>2, <1>6, <2>1 DEF RollbackPlugin, InstallPlugin
  <2>3. Calm(c)
    <3>1. CASE Go(c, "end") BY <2>2, <3>1, GoCalm, StageNames DEF Away, Typed, WasStages
    <3>2. CASE client' = [client EXCEPT ![c].pc = "end", ![c].report = "unrecovered"]
      BY <2>2, <3>2, MarkCalm, ResultNames, StageNames DEF Away, Typed, WasStages
    <3> QED BY <2>2, <3>1, <3>2
  <2> QED BY <2>2, <2>3
<1> QED BY <1>1, <1>5, <1>6

LEMMA FailsCalm ==
  ASSUME Typed, NEW c \in Clients, Fails(c), client[c].pc \notin Away, ~client[c].was,
         UNCHANGED <<agentVars, locks>>
  PROVE  Calm(c)
<1>1. CASE Go(c, "clean") BY <1>1, GoCalm, StageNames DEF Typed
<1>2. ASSUME NEW report \in Results, Finish(c, report) PROVE Calm(c) BY <1>2, FinishCalm DEF Typed
<1> QED BY <1>1, <1>2, ResultNames DEF Fails

\* What a command notes of what it sees.
LEMMA NotesCalm ==
  ASSUME Typed, NEW c \in Clients, client[c].pc \notin Away, UNCHANGED <<agentVars, locks>>,
         NEW pc \in Stages \ {"boot", "locking", "leave"}, client[c].was => pc \in WasStages,
         \/ client' = [client EXCEPT ![c].pc = pc, ![c].old = entry.app, ![c].before = noted]
         \/ client' = [client EXCEPT ![c].pc = pc, ![c].pid = entry.pid]
         \/ client' = [client EXCEPT ![c].pc = pc, ![c].back = TRUE, ![c].pid = NoPid]
         \/ \E told \in BOOLEAN : client' = [client EXCEPT ![c].pc = pc, ![c].told = told]
  PROVE  Calm(c)
<1> DEFINE a == [client[c] EXCEPT !.pc = pc, !.old = entry.app, !.before = noted]
           b == [client[c] EXCEPT !.pc = pc, !.pid = entry.pid]
           d == [client[c] EXCEPT !.pc = pc, !.back = TRUE, !.pid = NoPid]
           e(told) == [client[c] EXCEPT !.pc = pc, !.told = told]
<1>1. client[c] \in Command BY DEF Typed
<1>2. entry.app \in Release /\ entry.pid \in Pids \cup {NoPid} /\ noted \in Release
  BY DEF Typed, DeployTypeOK, World, Entry
<1>3. /\ a \in Command /\ a.pc = pc /\ a.paths = client[c].paths /\ a.was = client[c].was
      /\ b \in Command /\ b.pc = pc /\ b.paths = client[c].paths /\ b.was = client[c].was
      /\ d \in Command /\ d.pc = pc /\ d.paths = client[c].paths /\ d.was = client[c].was
      /\ \A told \in BOOLEAN :
           /\ e(told) \in Command /\ e(told).pc = pc
           /\ e(told).paths = client[c].paths /\ e(told).was = client[c].was
  BY <1>1, <1>2 DEF Command
<1>4. \/ client' = [client EXCEPT ![c] = a] \/ client' = [client EXCEPT ![c] = b]
      \/ client' = [client EXCEPT ![c] = d]
      \/ \E told \in BOOLEAN : client' = [client EXCEPT ![c] = e(told)]
  OBVIOUS
<1> HIDE DEF a, b, d, e
<1>5. client \in [Clients -> Command] BY DEF Typed
<1>6. ASSUME NEW r \in Command, r.pc = pc, r.paths = client[c].paths, r.was = client[c].was,
             client' = [client EXCEPT ![c] = r]
      PROVE  Calm(c)
  BY <1>5, <1>6, TurnCalm DEF Inside
<1> QED BY <1>3, <1>4, <1>6

LEMMA AsideOrderly ==
  ASSUME Typed, NEW c \in Clients,
         \/ Refuse(c) \/ Check(c) \/ Deleted(c) \/ Look(c) \/ WaitForGatewayReady(c) \/ CheckVersion(c)
         \/ Cleaned(c) \/ GoBack(c) \/ End(c) \/ (FindsBusy(c) /\ UNCHANGED deployVars)
  PROVE  Orderly(c)
<1> USE StageNames, ResultNames
<1>1. Aside
  BY DEF Refuse, Check, Deleted, Look, WaitForGatewayReady, CheckVersion, Cleaned, GoBack, End, FindsBusy, Aside
<1>2. UNCHANGED <<agentVars, locks>> BY <1>1 DEF Aside
<1>3. client \in [Clients -> Command] BY DEF Typed
<1>4. Calm(c)
  <2>1. CASE Refuse(c) BY <2>1, <1>2, <1>3, FinishCalm DEF Refuse, Enters, Away
  <2>2. CASE Check(c)
    <3>1. client[c].pc \notin Away /\ ~client[c].was BY <2>2 DEF Check, Enters, Away, WasStages, Typed
    <3>2. CASE Finish(c, "already") BY <3>1, <3>2, <1>2, <1>3, FinishCalm
    <3>3. CASE client' = [client EXCEPT
            ![c].pc = IF entry # NoEntry THEN "delete"
                      ELSE IF client[c].op = "uninstall" THEN "forget" ELSE "start",
            ![c].old = entry.app, ![c].before = noted]
      <4> DEFINE pc == IF entry # NoEntry THEN "delete"
                       ELSE IF client[c].op = "uninstall" THEN "forget" ELSE "start"
      <4>1. pc \in Stages \ {"boot", "locking", "leave"} OBVIOUS
      <4>2. client' = [client EXCEPT ![c].pc = pc, ![c].old = entry.app, ![c].before = noted] BY <3>3
      <4> HIDE DEF pc
      <4> QED BY <4>1, <4>2, <3>1, <1>2, NotesCalm
    <3> QED BY <2>2, <3>2, <3>3 DEF Check
  <2>3. CASE Deleted(c)
    <3>1. client[c].pc \notin Away /\ ~client[c].was BY <2>3 DEF Deleted, Away, WasStages, Typed
    <3>2. PICK pc \in {"forget", "start"} : Go(c, pc) BY <2>3 DEF Deleted
    <3> QED BY <3>1, <3>2, <1>2, <1>3, GoCalm
  <2>4. CASE Look(c)
    <3>1. client[c].pc \notin Away /\ ~client[c].was BY <2>4 DEF Look, Away, WasStages, Typed
    <3>2. CASE Fails(c) BY <3>1, <3>2, <1>2, FailsCalm
    <3>3. CASE client' = [client EXCEPT ![c].pc = "ready", ![c].pid = entry.pid]
      <4> DEFINE pc == "ready"
      <4>1. pc \in Stages \ {"boot", "locking", "leave"} OBVIOUS
      <4>2. client' = [client EXCEPT ![c].pc = pc, ![c].pid = entry.pid] BY <3>3
      <4> HIDE DEF pc
      <4> QED BY <4>1, <4>2, <3>1, <1>2, NotesCalm
    <3> QED BY <2>4, <3>2, <3>3 DEF Look
  <2>5. CASE WaitForGatewayReady(c)
    <3>1. client[c].pc \notin Away /\ ~client[c].was BY <2>5 DEF WaitForGatewayReady, Away, WasStages, Typed
    <3>2. CASE Fails(c) BY <3>1, <3>2, <1>2, FailsCalm
    <3>3. CASE Go(c, "version") BY <3>1, <3>3, <1>2, <1>3, GoCalm
    <3> QED BY <2>5, <3>2, <3>3 DEF WaitForGatewayReady
  <2>10. CASE CheckVersion(c)
    <3>1. client[c].pc \notin Away /\ ~client[c].was BY <2>10 DEF CheckVersion, Away, WasStages, Typed
    <3>2. CASE Fails(c) BY <3>1, <3>2, <1>2, FailsCalm
    <3>3. CASE client' = [client EXCEPT ![c].pc = "save", ![c].told = (ReadyVersion(c) # NoVersion)]
      <4> DEFINE pc == "save"
                 told == ReadyVersion(c) # NoVersion
      <4>1. pc \in Stages \ {"boot", "locking", "leave"} /\ told \in BOOLEAN OBVIOUS
      <4>2. client' = [client EXCEPT ![c].pc = pc, ![c].told = told] BY <3>3
      <4> HIDE DEF pc, told
      <4> QED BY <4>1, <4>2, <3>1, <1>2, NotesCalm
    <3> QED BY <2>10, <3>2, <3>3 DEF CheckVersion
  <2>6. CASE Cleaned(c)
    <3>1. client[c].pc \notin Away /\ ~client[c].was BY <2>6 DEF Cleaned, Away, WasStages, Typed
    <3> QED BY <2>6, <3>1, <1>2, <1>3, GoCalm DEF Cleaned
  <2>7. CASE GoBack(c)
    <3>1. client[c].pc \notin Away /\ ~client[c].was BY <2>7 DEF GoBack, Away, WasStages, Typed
    <3>2. CASE Finish(c, "failed") BY <3>1, <3>2, <1>2, <1>3, FinishCalm
    <3>3. CASE client' = [client EXCEPT ![c].pc = "start", ![c].back = TRUE, ![c].pid = NoPid]
      <4> DEFINE pc == "start"
      <4>1. pc \in Stages \ {"boot", "locking", "leave"} OBVIOUS
      <4>2. client' = [client EXCEPT ![c].pc = pc, ![c].back = TRUE, ![c].pid = NoPid] BY <3>3
      <4> HIDE DEF pc
      <4> QED BY <4>1, <4>2, <3>1, <1>2, NotesCalm
    <3> QED BY <2>7, <3>2, <3>3 DEF GoBack
  <2>8. CASE End(c) BY <2>8, <1>2, <1>3, IdleCalm DEF End
  <2>9. CASE FindsBusy(c) BY <2>9, <1>2, <1>3, MarkCalm DEF FindsBusy, Away, WasStages, Typed
  <2> QED BY <2>1, <2>2, <2>3, <2>4, <2>5, <2>6, <2>7, <2>8, <2>9, <2>10
<1> QED BY <1>1, <1>4, AsideKeeps DEF Orderly

\* A call of pm2 that PM2 may have carried out.
LEMMA CalledKeeps ==
  ASSUME Typed, UNCHANGED faults \/ Fault, UNCHANGED deployVars,
         \/ UNCHANGED <<lockVars, daemonVars>>
         \/ Terminate("deleting") \/ Terminate("stopping") \/ StartName \/ Save
         \/ \E app \in Release : StartScript(app)
  PROVE  World' /\ faults' \in 0 .. MaxFaults /\ DeployTypeOK'
<1>1. World BY DEF Typed
<1>2. World'
  BY <1>1, SameWorld, TerminateWorld, StartNameWorld, SaveWorld, StartScriptWorld
<1>3. faults' \in 0 .. MaxFaults BY FaultType DEF Typed
<1> QED BY <1>2, <1>3 DEF Typed, DeployTypeOK, deployVars

LEMMA CallOrderly ==
  ASSUME Typed, NEW c \in Clients,
         Delete(c) \/ Start(c) \/ SavePm2State(c) \/ Clean(c) \/ Forget(c) \/ WriteRunningVersion(c)
  PROVE  Orderly(c)
<1> USE StageNames, ResultNames
<1>1. client[c].pc \notin Away /\ ~client[c].was
  BY DEF Delete, Start, SavePm2State, Clean, Forget, WriteRunningVersion, Away, WasStages, Typed
<1>2. UNCHANGED <<agentVars, locks>>
  BY DEF Delete, Start, SavePm2State, Clean, Forget, WriteRunningVersion
<1>3. client \in [Clients -> Command] /\ client[c] \in Command BY DEF Typed
<1>4. ASSUME NEW pc \in Stages \ {"boot", "locking", "leave"}, Go(c, pc) PROVE Calm(c)
  BY <1>1, <1>2, <1>3, <1>4, GoCalm
<1>5. ASSUME NEW report \in Results, Finish(c, report) PROVE Calm(c)
  BY <1>1, <1>2, <1>3, <1>5, FinishCalm
<1>6. Fails(c) => Calm(c) BY <1>1, <1>2, FailsCalm
<1>7. CASE Delete(c)
  <2>1. World' /\ faults' \in 0 .. MaxFaults /\ DeployTypeOK'
    BY <1>7, CalledKeeps DEF Delete, Call
  <2>2. Go(c, "deleting") \/ Finish(c, "failed") BY <1>7 DEF Delete, Call
  <2> QED BY <2>1, <2>2, <1>4, <1>5 DEF Orderly
<1>8. CASE Start(c)
  <2>1. Target(c) \in Release BY <1>3 DEF Target, Command
  <2>2. World' /\ faults' \in 0 .. MaxFaults /\ DeployTypeOK'
    BY <1>8, <2>1, CalledKeeps DEF Start, Call
  <2>3. Go(c, "look") \/ Fails(c) BY <1>8 DEF Start, Call
  <2> QED BY <2>2, <2>3, <1>4, <1>6 DEF Orderly
<1>9. CASE SavePm2State(c)
  <2>1. World' /\ faults' \in 0 .. MaxFaults /\ DeployTypeOK'
    BY <1>9, CalledKeeps DEF SavePm2State, Call
  <2>2. Go(c, "note") \/ Fails(c) BY <1>9 DEF SavePm2State, Call
  <2> QED BY <2>1, <2>2, <1>4, <1>6 DEF Orderly
<1>10. CASE Clean(c)
  <2>1. World' /\ faults' \in 0 .. MaxFaults /\ DeployTypeOK'
    BY <1>10, CalledKeeps DEF Clean, Call
  <2>2. Go(c, "cleaning") \/ Go(c, "restore") BY <1>10 DEF Clean, Call
  <2> QED BY <2>1, <2>2, <1>4 DEF Orderly
<1>11. CASE Forget(c)
  <2>1. World' /\ faults' \in 0 .. MaxFaults /\ DeployTypeOK'
    BY <1>11, CalledKeeps DEF Forget, Call
  <2>2. Go(c, "unload") \/ Finish(c, "failed") BY <1>11 DEF Forget, Call
  <2> QED BY <2>1, <2>2, <1>4, <1>5 DEF Orderly
<1>12. CASE WriteRunningVersion(c)
  <2>1. World' /\ faults' \in 0 .. MaxFaults
    BY <1>12, SameWorld, FaultType DEF WriteRunningVersion, Typed
  <2>2. Noted(c) \in Release BY <1>3 DEF Noted, Command, Typed, DeployTypeOK
  <2>3. DeployTypeOK' BY <1>12, <2>2 DEF WriteRunningVersion, Typed, DeployTypeOK
  <2>4. \/ Finish(c, "rolledback") \/ Finish(c, "ok")
        \/ Go(c, "agent") \/ Fails(c)
    BY <1>12 DEF WriteRunningVersion
  <2> QED BY <2>1, <2>3, <2>4, <1>4, <1>5, <1>6 DEF Orderly
<1> QED BY <1>7, <1>8, <1>9, <1>10, <1>11, <1>12

-----------------------------------------------------------------------------
(* Commands that change the database.                                      *)

LEMMA OrderCalm ==
  ASSUME Typed, NEW c \in Clients, NEW op \in Upkeep, NEW keep \in BOOLEAN, Order(c, op, keep)
  PROVE  Calm(c)
<1> DEFINE r == [Idle EXCEPT !.op = op, !.keep = keep, !.pc = "locking", !.paths = SavedManagementLockPaths]
<1>1. client' = [client EXCEPT ![c] = r] BY DEF Order
<1>2. "locking" \in Stages /\ "locking" \in Away BY DEF Stages, Away
<1>3. SavedManagementLockPaths \in SUBSET LockPaths BY DEF SavedManagementLockPaths, LockPaths
<1>4. op \in Ops BY DEF Upkeep, Ops
<1>5. r \in Command /\ r.pc = "locking" /\ r.paths = SavedManagementLockPaths /\ ~r.was
  BY <1>2, <1>3, <1>4, IdleType DEF Command
<1> HIDE DEF r
<1>6. UNCHANGED <<agentVars, locks>> /\ client \in [Clients -> Command] BY DEF Order, Offside, Typed
<1> QED BY <1>1, <1>2, <1>5, <1>6, TurnCalm DEF Inside

LEMMA StopsCalm ==
  ASSUME Typed, NEW c \in Clients, client[c].pc \notin Away, UNCHANGED <<agentVars, locks>>,
         \/ ~client[c].was /\ client' = [client EXCEPT ![c].pc = "halt", ![c].baseline = last]
         \/ client' = [client EXCEPT ![c].pc = "halting", ![c].was = TRUE]
         \/ client' = [client EXCEPT ![c].pc = "revive", ![c].was = TRUE, ![c].report = "refused"]
  PROVE  Calm(c)
<1> DEFINE a == [client[c] EXCEPT !.pc = "halt", !.baseline = last]
           b == [client[c] EXCEPT !.pc = "halting", !.was = TRUE]
           d == [client[c] EXCEPT !.pc = "revive", !.was = TRUE, !.report = "refused"]
<1>1. client[c] \in Command /\ client \in [Clients -> Command] BY DEF Typed
<1>2. last \in Nat BY MaintenanceConstants DEF Typed, DbTypeOK
<1>3. {"halt", "halting", "revive"} \subseteq Stages /\ "refused" \in Results BY StageNames, ResultNames
<1>4. /\ a \in Command /\ a.pc = "halt" /\ a.paths = client[c].paths /\ a.was = client[c].was
      /\ b \in Command /\ b.pc = "halting" /\ b.paths = client[c].paths
      /\ d \in Command /\ d.pc = "revive" /\ d.paths = client[c].paths
  BY <1>1, <1>2, <1>3 DEF Command
<1>5. (~client[c].was /\ client' = [client EXCEPT ![c] = a]) \/ client' = [client EXCEPT ![c] = b] \/ client' = [client EXCEPT ![c] = d]
  OBVIOUS
<1> HIDE DEF a, b, d
<1>6. ASSUME NEW r \in Command, r.pc \in {"halt", "halting", "revive"}, r.paths = client[c].paths,
             r.was => r.pc \in {"halting", "revive"}, client' = [client EXCEPT ![c] = r]
      PROVE  Calm(c)
  BY <1>1, <1>6, TurnCalm DEF Inside, WasStages
<1> QED BY <1>4, <1>5, <1>6

LEMMA UpkeepCalm ==
  ASSUME Typed, NEW c \in Clients, Maintains(c)
  PROVE  Calm(c)
<1> USE StageNames, ResultNames
<1>1. client \in [Clients -> Command] /\ client[c] \in Command BY DEF Typed
<1>2. CASE \E op \in Upkeep, keep \in BOOLEAN : Order(c, op, keep) BY <1>2, OrderCalm
<1>3. ASSUME ~ \E op \in Upkeep, keep \in BOOLEAN : Order(c, op, keep) PROVE Calm(c)
  <2>1. client[c].pc \notin Away
    BY <1>3 DEF Maintains, AssertIdleBeforeGatewayStop, NoneToStop, RefuseToStop, StopGatewayForMaintenance,
       Halted, AssertNoRunsStartedSince, LookFirst, Begin, Commit, Rollback, Revive, Watch, Await, Away
  <2>2. UNCHANGED <<agentVars, locks>>
    BY <1>3 DEF Maintains, AssertIdleBeforeGatewayStop, NoneToStop, RefuseToStop, StopGatewayForMaintenance,
       Halted, AssertNoRunsStartedSince, LookFirst, Begin, Commit, Rollback, Revive, Watch, Await, Offside
  <2>3. ASSUME NEW pc \in Stages \ {"boot", "locking", "leave"}, client[c].was => pc \in WasStages, Go(c, pc)
        PROVE  Calm(c)
    BY <1>1, <2>1, <2>2, <2>3, GoCalm
  <2>4. ASSUME NEW report \in Results, Finish(c, report) PROVE Calm(c)
    BY <1>1, <2>1, <2>2, <2>4, FinishCalm
  <2>5. ASSUME NEW report \in Results, Back(c, report) \/ Undo(c, report) PROVE Calm(c)
    <3>1. CASE Finish(c, report) BY <2>4, <3>1
    <3>2. CASE client' = [client EXCEPT ![c].pc = "revive", ![c].report = report]
      <4>1. "revive" \in Stages /\ "revive" \in WasStages BY DEF WasStages
      <4> QED BY <1>1, <2>1, <2>2, <3>2, <4>1, MarkCalm
    <3> QED BY <2>5, <3>1, <3>2 DEF Back, Undo
  <2>6. CASE AssertIdleBeforeGatewayStop(c)
    BY <2>1, <2>2, <2>4, <2>6, StopsCalm DEF AssertIdleBeforeGatewayStop, Typed, WasStages
  <2>7. CASE NoneToStop(c) BY <2>3, <2>7 DEF NoneToStop, WasStages
  <2>8. CASE RefuseToStop(c) BY <2>4, <2>8 DEF RefuseToStop
  <2>9. CASE StopGatewayForMaintenance(c)
    <3>1. \/ client' = [client EXCEPT ![c].pc = "halting", ![c].was = TRUE]
          \/ client' = [client EXCEPT ![c].pc = "revive", ![c].was = TRUE, ![c].report = "refused"]
      BY <2>9 DEF StopGatewayForMaintenance, Call
    <3> QED BY <2>1, <2>2, <3>1, StopsCalm
  <2>10. CASE Halted(c) BY <2>3, <2>10 DEF Halted, WasStages
  <2>11. CASE AssertNoRunsStartedSince(c)
    <3>1. PICK pc \in {"assess", "begin"} : Back(c, "refused") \/ Go(c, pc)
      BY <2>11 DEF AssertNoRunsStartedSince
    <3> QED BY <2>3, <2>5, <3>1 DEF WasStages
  <2>12. CASE LookFirst(c) BY <2>3, <2>5, <2>12 DEF LookFirst, WasStages
  <2>13. CASE Begin(c) BY <2>3, <2>5, <2>13 DEF Begin, CheckAndSave, WasStages
  <2>14. CASE Commit(c) BY <2>5, <2>14 DEF Commit
  <2>15. CASE Rollback(c) BY <2>5, <2>15 DEF Rollback
  <2>16. CASE Revive(c)
    <3>1. Go(c, "watch") \/ Finish(c, "unrecovered") BY <2>16 DEF Revive, Call
    <3> QED BY <2>3, <2>4, <3>1 DEF WasStages
  <2>17. CASE Watch(c)
    <3>1. CASE Finish(c, "unrecovered") BY <2>4, <3>1
    <3>2. CASE client' = [client EXCEPT ![c].pc = "await", ![c].pid = entry.pid]
      <4> DEFINE pc == "await"
      <4>1. pc \in Stages \ {"boot", "locking", "leave"} /\ pc \in WasStages BY DEF WasStages
      <4>2. client' = [client EXCEPT ![c].pc = pc, ![c].pid = entry.pid] BY <3>2
      <4> HIDE DEF pc
      <4> QED BY <2>1, <2>2, <4>1, <4>2, NotesCalm
    <3> QED BY <2>17, <3>1, <3>2 DEF Watch
  <2>18. CASE Await(c)
    <3>1. client[c].report \in Results BY <1>1 DEF Command
    <3>2. PICK report \in {client[c].report, "unrecovered"} : Finish(c, report) BY <2>18 DEF Await
    <3> QED BY <2>4, <3>1, <3>2
  <2> QED BY <1>3, <2>6, <2>7, <2>8, <2>9, <2>10, <2>11, <2>12, <2>13, <2>14, <2>15, <2>16, <2>17, <2>18
          DEF Maintains
<1> QED BY <1>2, <1>3

LEMMA OffsideKeeps ==
  ASSUME Typed, Offside
  PROVE  World' /\ faults' \in 0 .. MaxFaults
BY SameWorld DEF Offside, Typed

LEMMA UpkeepKeeps ==
  ASSUME Typed, NEW c \in Clients, Maintains(c), UNCHANGED deployVars
  PROVE  World' /\ faults' \in 0 .. MaxFaults
<1>1. CASE Offside BY <1>1, OffsideKeeps
<1>2. CASE StopGatewayForMaintenance(c) BY <1>2, CalledKeeps DEF StopGatewayForMaintenance, Call
<1>3. CASE Revive(c) BY <1>3, CalledKeeps DEF Revive, Call
<1>4. CASE Commit(c)
  <2>1. [LockNext]_lockVars BY <1>4 DEF Commit, LockNext
  <2>2. LockInv' BY <2>1, StepLock DEF Typed, World
  <2> QED BY <1>4, <2>2 DEF Commit, Typed, World, daemonVars
<1>5. CASE Rollback(c) BY <1>5, SameWorld, FaultType DEF Rollback, Typed
<1> QED BY <1>1, <1>2, <1>3, <1>4, <1>5
    DEF Maintains, Order, AssertIdleBeforeGatewayStop, NoneToStop, RefuseToStop, Halted,
        AssertNoRunsStartedSince, LookFirst, Begin, Watch, Await

LEMMA RunIds ==
  ASSUME DbTypeOK, (UNCHANGED seq /\ last' = 0) \/ (seq' \in 0 .. seq /\ last' \in 0 .. seq')
                   \/ (seq < MaxRuns /\ seq' = seq + 1 /\ last' = seq + 1)
  PROVE  last' \in 0 .. MaxRuns /\ seq' \in 0 .. MaxRuns
<1>1. seq \in Nat /\ seq <= MaxRuns /\ MaxRuns \in Nat BY MaintenanceConstants DEF DbTypeOK
<1>2. seq' \in Nat /\ seq' <= MaxRuns
  <2>1. CASE UNCHANGED seq BY <1>1, <2>1
  <2>2. CASE seq' \in 0 .. seq BY <1>1, <2>2
  <2>3. CASE seq < MaxRuns /\ seq' = seq + 1 BY <1>1, <2>3
  <2> QED BY <2>1, <2>2, <2>3
<1>3. last' \in Nat /\ last' <= seq'
  <2>1. CASE last' = 0 BY <1>2, <2>1
  <2>2. CASE last' \in 0 .. seq' BY <1>2, <2>2
  <2>3. CASE seq' = seq + 1 /\ last' = seq + 1 BY <1>1, <2>3
  <2> QED BY <2>1, <2>2, <2>3
<1> QED BY <1>1, <1>2, <1>3

LEMMA UpkeepTyped ==
  ASSUME Typed, NEW c \in Clients, Maintains(c)
  PROVE  DbTypeOK'
<1>0. DbTypeOK BY DEF Typed
<1>1. CASE UNCHANGED dbVars BY <1>0, <1>1 DEF dbVars, DbTypeOK
<1>2. CASE AssertIdleBeforeGatewayStop(c) BY <1>0, <1>2 DEF AssertIdleBeforeGatewayStop, DbTypeOK
<1>3. CASE Begin(c) BY <1>0, <1>3 DEF Begin, CheckAndSave, DbTypeOK
<1>4. CASE Commit(c)
  <2>1. Emptied \/ Restored BY <1>4 DEF Commit
  <2>2. last' \in 0 .. MaxRuns /\ seq' \in 0 .. MaxRuns BY <1>0, <2>1, RunIds DEF Emptied, Restored
  <2>3. rows' \subseteq Tasks BY <2>1 DEF Emptied, Restored
  <2>4. open' = FALSE /\ cut' = FALSE BY <2>1, Zenon DEF Emptied, Restored
  <2> QED BY <1>0, <1>4, <2>2, <2>3, <2>4 DEF Commit, DbTypeOK
<1>5. CASE Rollback(c) BY <1>0, <1>5 DEF Rollback, DbTypeOK
<1> QED BY <1>1, <1>2, <1>3, <1>4, <1>5
    DEF Maintains, Order, NoneToStop, RefuseToStop, StopGatewayForMaintenance, Halted,
        AssertNoRunsStartedSince, LookFirst, Revive, Watch, Await

LEMMA WorkTyped ==
  ASSUME Typed, GatewayAndOthers \/ Database
  PROVE  DbTypeOK'
<1>0. DbTypeOK BY DEF Typed
<1> USE DEF DbTypeOK
<1>1. CASE GatewayAndOthers
  <2>1. open' \in BOOLEAN /\ cut' \in BOOLEAN BY <1>0, <1>1 DEF GatewayAndOthers, Interrupts
  <2> QED BY <1>0, <1>1, <2>1 DEF GatewayAndOthers
<1>2. CASE Database
  <2>1. CASE AddTask BY <1>0, <2>1 DEF AddTask, NoWriter
  <2>2. ASSUME NEW p \in Pids, StartRun(p) PROVE DbTypeOK'
    <3>1. last' \in 0 .. MaxRuns /\ seq' \in 0 .. MaxRuns BY <1>0, <2>2, RunIds DEF StartRun
    <3> QED BY <1>0, <2>2, <3>1 DEF StartRun, NoWriter
  <2>3. ASSUME NEW p \in Pids, EndRun(p) PROVE DbTypeOK' BY <1>0, <2>3 DEF EndRun, NoWriter
  <2>4. ASSUME NEW p \in Pids, DashboardClear(p) PROVE DbTypeOK'
    <3>1. last' \in 0 .. MaxRuns /\ seq' \in 0 .. MaxRuns BY <1>0, <2>4, RunIds DEF DashboardClear, Emptied
    <3> QED BY <1>0, <2>4, <3>1 DEF DashboardClear, NoWriter, Emptied
  <2> QED BY <1>2, <2>1, <2>2, <2>3, <2>4 DEF Database
<1> QED BY <1>1, <1>2

-----------------------------------------------------------------------------
(* The management locks.                                                   *)

\* No supervisor of the earlier release runs, and none can come back.
NoOld ==
  /\ plist # "old" /\ agent # "old"
  /\ \A d \in Clients : client[d].pc = "boot" => client[d].prev # "old"

\* Who acts, or leaves after it stopped the Gateway, holds what it asked for.
HoldsThem == \A c \in Clients : Inside(client[c]) => client[c].paths \subseteq Taken(c)

\* It asked for the canonical lock, and for that of the earlier release as
\* long as that release may have a supervisor.
AsksRight ==
  \A c \in Clients : Inside(client[c]) \/ client[c].pc = "locking" =>
    /\ "canonical" \in client[c].paths
    /\ "legacy" \in client[c].paths \/ NoOld

\* A supervisor of the earlier release has its file, also after a rollback.
AgentHasFile ==
  /\ agent = "old" => plist # "none"
  /\ \A c \in Clients : client[c].pc = "boot" =>
       plist = "new" /\ (agent = "old" => client[c].prev # "none")

\* A supervisor that is to resurrect the Gateway holds its locks.
WatchHolds ==
  sup = "missing" =>
    locks["legacy"] = "supervisor" /\ (locks["canonical"] = "supervisor" \/ agent = "old")

Held == HoldsThem /\ AsksRight /\ AgentHasFile /\ WatchHolds

LEMMA ActsInside == \A c \in Clients : Acts(c) => Inside(client[c])
BY DEF Acts, Inside, Away

\* Nobody else is inside, and the supervisor does nothing.
LEMMA InsideAlone ==
  ASSUME Typed, Held, NEW c \in Clients, Inside(client[c])
  PROVE  sup = "idle" /\ \A d \in Clients : Inside(client[d]) => d = c
<1>1. ASSUME NEW d \in Clients, Inside(client[d]) PROVE locks["canonical"] = d
  BY <1>1 DEF Held, HoldsThem, AsksRight, Taken
<1>2. "legacy" \in client[c].paths => locks["legacy"] = c BY DEF Held, HoldsThem, Taken
<1>3. "legacy" \in client[c].paths \/ agent # "old" BY DEF Held, AsksRight, NoOld
<1>4. c # "supervisor" BY Pm2Constants
<1>5. sup # "missing" BY <1>1, <1>2, <1>3, <1>4 DEF Held, WatchHolds
<1> QED BY <1>1, <1>5 DEF Typed

LEMMA ActsAlone ==
  ASSUME Typed, Held
  PROVE  ManagedByOne
<1>1. ASSUME NEW c \in Clients, Acts(c) PROVE sup = "idle" /\ \A d \in Clients : Acts(d) => d = c
  BY <1>1, ActsInside, InsideAlone
<1> QED BY <1>1 DEF ManagedByOne

\* Asking while there is no file asks for what is needed.
LEMMA SavedAsksRight ==
  ASSUME Held
  PROVE  /\ "canonical" \in SavedManagementLockPaths
         /\ "legacy" \in SavedManagementLockPaths \/ NoOld
BY DEF SavedManagementLockPaths, LockPaths, Held, AgentHasFile, NoOld

LEMMA CalmHeld ==
  ASSUME Typed, Held, NEW c \in Clients, Calm(c)
  PROVE  Held'
<1>1. UNCHANGED <<plist, agent, sup, locks>> BY DEF Calm, agentVars
<1>2. \A d \in Clients : client'[d].pc = "boot" => client'[d] = client[d] BY DEF Calm
<1>3. NoOld => NoOld' BY <1>1, <1>2 DEF NoOld
<1>4. ASSUME NEW d \in Clients, Inside(client'[d])
      PROVE  Inside(client[d]) /\ client'[d].paths = client[d].paths
  BY <1>4 DEF Calm
<1>5. HoldsThem' BY <1>1, <1>4 DEF HoldsThem, Held, Taken
<1>6. AsksRight'
  <2>1. ASSUME NEW d \in Clients, Inside(client'[d]) \/ client'[d].pc = "locking"
        PROVE  "canonical" \in client'[d].paths /\ ("legacy" \in client'[d].paths \/ NoOld')
    <3>1. CASE Inside(client'[d]) BY <1>3, <1>4, <3>1 DEF Held, AsksRight
    <3>2. CASE client'[d].pc = "locking" /\ d = c BY <1>3, <3>2, SavedAsksRight DEF Calm
    <3>3. CASE client'[d].pc = "locking" /\ d # c BY <1>3, <3>3 DEF Calm, Held, AsksRight
    <3> QED BY <2>1, <3>1, <3>2, <3>3
  <2> QED BY <2>1 DEF AsksRight
<1>7. AgentHasFile' BY <1>1, <1>2 DEF AgentHasFile, Held
<1>8. WatchHolds' BY <1>1 DEF WatchHolds, Held
<1> QED BY <1>5, <1>6, <1>7, <1>8 DEF Held

\* What is not about a command or its locks.
LEMMA ElsewhereHeld ==
  ASSUME Held, UNCHANGED <<agentVars, locks, client>>
  PROVE  Held'
BY DEF Held, HoldsThem, AsksRight, AgentHasFile, WatchHolds, NoOld, Taken, agentVars

LEMMA TakeLockHeld ==
  ASSUME Typed, Held, NEW c \in Clients, TakeLock(c)
  PROVE  /\ Held' /\ client' \in [Clients -> Command]
         /\ \A d \in Clients : client'[d].was => client'[d].pc \in WasStages
         /\ locks' \in [LockPaths -> Clients \cup {"supervisor", "nobody"}]
<1> DEFINE pc == IF client[c].paths = Taken(c) \cup {NextPath(c)} THEN "enter" ELSE "locking"
           r == [client[c] EXCEPT !.pc = pc]
<1>1. client[c] \in Command /\ client \in [Clients -> Command] BY DEF Typed
<1>2. client' = [client EXCEPT ![c] = r] BY DEF TakeLock, Go
<1>3. pc \in Stages BY DEF Stages
<1> HIDE DEF pc
<1>4. r \in Command /\ r.pc = pc /\ r.paths = client[c].paths /\ r.was = client[c].was
  BY <1>1, <1>3 DEF Command
<1> HIDE DEF r
<1>5. client' \in [Clients -> Command] /\ client'[c] = r /\ \A d \in Clients \ {c} : client'[d] = client[d]
  BY <1>1, <1>2, <1>4
<1>6. pc \in {"enter", "locking"} BY DEF pc
<1>7. /\ NextPath(c) \in LockPaths /\ locks[NextPath(c)] = "nobody"
      /\ locks' = [locks EXCEPT ![NextPath(c)] = c]
      /\ UNCHANGED <<plist, agent, sup>>
  BY DEF TakeLock, NextPath, LockPaths, agentVars
<1>8. locks' \in [LockPaths -> Clients \cup {"supervisor", "nobody"}] BY <1>7 DEF Typed
<1>9. \A path \in LockPaths : locks[path] # "nobody" => locks'[path] = locks[path] BY <1>7 DEF Typed
<1>10. \A d \in Clients : d # "nobody" BY Pm2Constants
<1>11. \A d \in Clients : Taken(d) \subseteq Taken(d)' BY <1>9, <1>10 DEF Taken
<1>12. Taken(c)' = Taken(c) \cup {NextPath(c)} BY <1>7, <1>10 DEF Taken, Typed
<1>13. HoldsThem'
  <2>1. ASSUME NEW d \in Clients, Inside(client'[d]) PROVE client'[d].paths \subseteq Taken(d)'
    <3>1. CASE d = c
      <4>1. pc = "enter" BY <1>4, <1>5, <1>6, <2>1, <3>1 DEF Inside, Away
      <4>2. client[c].paths = Taken(c)' BY <1>12, <4>1 DEF pc
      <4> QED BY <1>4, <1>5, <3>1, <4>2
    <3>2. CASE d # c BY <1>5, <1>11, <2>1, <3>2 DEF Held, HoldsThem
    <3> QED BY <3>1, <3>2
  <2> QED BY <2>1 DEF HoldsThem
<1>14. NoOld => NoOld' BY <1>4, <1>5, <1>6, <1>7 DEF NoOld
<1>15. client[c].pc = "locking" /\ ~client[c].was BY DEF TakeLock, Typed, WasStages
<1>16. AsksRight' BY <1>4, <1>5, <1>14, <1>15 DEF AsksRight, Held
<1>19. \A d \in Clients : client'[d].was => client'[d].pc \in WasStages
  BY <1>4, <1>5, <1>15 DEF Typed
<1>17. AgentHasFile' BY <1>4, <1>5, <1>6, <1>7 DEF AgentHasFile, Held
<1>18. WatchHolds' BY <1>7, <1>9 DEF WatchHolds, Held, LockPaths
<1> QED BY <1>5, <1>8, <1>13, <1>16, <1>17, <1>18, <1>19 DEF Held

\* A command ends, or is done with PM2.
LEMMA FreedHeld ==
  ASSUME Typed, Held, NEW c \in Clients, NEW r \in Command, r.pc \in {"idle", "replug", "end"},
         r.was => r.pc # "idle",
         client' = [client EXCEPT ![c] = r], locks' = Freed(c), UNCHANGED agentVars
  PROVE  /\ Held' /\ client' \in [Clients -> Command]
         /\ \A d \in Clients : client'[d].was => client'[d].pc \in WasStages
         /\ locks' \in [LockPaths -> Clients \cup {"supervisor", "nobody"}]
<1>1. client' \in [Clients -> Command] /\ client'[c] = r /\ \A d \in Clients \ {c} : client'[d] = client[d]
  BY DEF Typed
<1>2. UNCHANGED <<plist, agent, sup>> BY DEF agentVars
<1>3. locks' \in [LockPaths -> Clients \cup {"supervisor", "nobody"}] BY DEF Freed, Typed
<1>4. \A path \in LockPaths : locks[path] # c => locks'[path] = locks[path] BY DEF Freed
<1>5. \A d \in Clients \ {c} : Taken(d) \subseteq Taken(d)' BY <1>4 DEF Taken
<1>6. ~Inside(client'[c]) BY <1>1 DEF Inside, Away
<1>7. HoldsThem'
  <2>1. ASSUME NEW d \in Clients, Inside(client'[d]) PROVE client'[d].paths \subseteq Taken(d)'
    <3>1. d # c BY <1>6, <2>1
    <3> QED BY <1>1, <1>5, <2>1, <3>1 DEF Held, HoldsThem
  <2> QED BY <2>1 DEF HoldsThem
<1>8. NoOld => NoOld' BY <1>1, <1>2 DEF NoOld
<1>9. AsksRight' BY <1>1, <1>6, <1>8 DEF AsksRight, Held
<1>10. AgentHasFile' BY <1>1, <1>2 DEF AgentHasFile, Held
<1>11. WatchHolds' BY <1>2, <1>4, Pm2Constants DEF WatchHolds, Held, LockPaths
<1>12. \A d \in Clients : client'[d].was => client'[d].pc \in WasStages BY <1>1 DEF Typed, WasStages
<1> QED BY <1>12, <1>1, <1>3, <1>7, <1>9, <1>10, <1>11 DEF Held

\* A change of the LaunchAgent, by the one command that acts.
LEMMA AgentHeld ==
  ASSUME Typed, Held, NEW c \in Clients, Acts(c), NEW r \in Command,
         client' = [client EXCEPT ![c] = r], r.pc \in {"boot", "leave"}, r.paths = client[c].paths,
         r.was => r.pc = "leave",
         UNCHANGED <<sup, locks>>,
         agent' = "old" => plist' # "none",
         r.pc = "boot" => plist' = "new" /\ (agent' = "old" => r.prev # "none"),
         NoOld => plist' # "old" /\ agent' # "old" /\ (r.pc = "boot" => r.prev # "old")
  PROVE  /\ Held' /\ client' \in [Clients -> Command]
         /\ \A d \in Clients : client'[d].was => client'[d].pc \in WasStages
<1>1. client' \in [Clients -> Command] /\ client'[c] = r /\ \A d \in Clients \ {c} : client'[d] = client[d]
  BY DEF Typed
<1>2. Inside(client[c]) BY ActsInside
<1>3. sup = "idle" /\ \A d \in Clients \ {c} : ~Inside(client[d]) /\ client[d].pc # "boot"
  BY <1>2, InsideAlone DEF Inside, Away
<1>4. HoldsThem' BY <1>1, <1>2, <1>3 DEF HoldsThem, Held, Taken
<1>5. NoOld => NoOld' BY <1>1, <1>3 DEF NoOld
<1>6. AsksRight'
  <2>1. ASSUME NEW d \in Clients, Inside(client'[d]) \/ client'[d].pc = "locking"
        PROVE  "canonical" \in client'[d].paths /\ ("legacy" \in client'[d].paths \/ NoOld')
    <3>1. CASE d = c BY <1>1, <1>2, <1>5, <3>1 DEF Held, AsksRight
    <3>2. CASE d # c BY <1>1, <1>3, <1>5, <2>1, <3>2 DEF Held, AsksRight
    <3> QED BY <3>1, <3>2
  <2> QED BY <2>1 DEF AsksRight
<1>7. AgentHasFile' BY <1>1, <1>3 DEF AgentHasFile
<1>8. WatchHolds' BY <1>3 DEF WatchHolds
<1>9. \A d \in Clients : client'[d].was => client'[d].pc \in WasStages BY <1>1 DEF Typed, WasStages
<1> QED BY <1>9, <1>1, <1>4, <1>6, <1>7, <1>8 DEF Held

AgentSteps(c) == WriteAgent(c) \/ Bootstrap(c) \/ RollbackAgent(c) \/ RemoveAgent(c)

LEMMA AgentStepHeld ==
  ASSUME Typed, Held, NEW c \in Clients, AgentSteps(c), UNCHANGED dbVars
  PROVE  Held' /\ Typed'
<1> USE DEF AgentSteps
<1>1. Acts(c) BY DEF WriteAgent, Bootstrap, RollbackAgent, RemoveAgent, Acts
<1>2. client[c] \in Command /\ client \in [Clients -> Command] /\ plist \in Agents /\ agent \in Agents BY DEF Typed
<1>0. ~client[c].was BY DEF WriteAgent, Bootstrap, RollbackAgent, RemoveAgent, Typed, WasStages
<1>3. UNCHANGED <<lockVars, daemonVars, sup, locks, deployVars>>
  BY DEF WriteAgent, Bootstrap, RollbackAgent, RemoveAgent, Unchanging
<1>4. ASSUME NEW report \in Results, Finish(c, report),
             agent' = "old" => plist' # "none",
             NoOld => plist' # "old" /\ agent' # "old"
      PROVE  /\ Held' /\ client' \in [Clients -> Command]
             /\ \A d \in Clients : client'[d].was => client'[d].pc \in WasStages
  <2> DEFINE r == [client[c] EXCEPT !.pc = "leave", !.report = report]
  <2>1. client' = [client EXCEPT ![c] = r] BY <1>4 DEF Finish
  <2>2. "leave" \in Stages BY DEF Stages
  <2>3. r \in Command /\ r.pc = "leave" /\ r.paths = client[c].paths BY <1>2, <2>2 DEF Command
  <2> HIDE DEF r
  <2> QED BY <1>1, <1>3, <1>4, <2>1, <2>3, AgentHeld
<1>5. AgentHasFile BY DEF Held
<1>6. /\ Held' /\ client' \in [Clients -> Command] /\ plist' \in Agents /\ agent' \in Agents
      /\ \A d \in Clients : client'[d].was => client'[d].pc \in WasStages
  <2>1. CASE WriteAgent(c)
    <3> DEFINE r == [client[c] EXCEPT !.pc = "boot", !.prev = plist, !.loaded = (plist # "none" /\ agent # "none")]
    <3>1. client' = [client EXCEPT ![c] = r] BY <2>1 DEF WriteAgent
    <3>2. "boot" \in Stages BY DEF Stages
    <3>3. r \in Command /\ r.pc = "boot" /\ r.paths = client[c].paths /\ r.prev = plist /\ ~r.was
      BY <1>0, <1>2, <3>2 DEF Command
    <3> HIDE DEF r
    <3>4. plist' = "new" /\ agent' \in {"none", agent} BY <2>1 DEF WriteAgent
    <3>5. agent' = "old" => plist # "none" BY <1>5, <3>4 DEF AgentHasFile
    <3>6. NoOld => plist' # "old" /\ agent' # "old" /\ r.prev # "old" BY <3>3, <3>4 DEF NoOld
    <3> QED BY <1>1, <1>2, <1>3, <3>1, <3>3, <3>4, <3>5, <3>6, AgentHeld DEF Agents
  <2>2. CASE Bootstrap(c)
    <3>1. Finish(c, "ok") /\ agent' = "new" /\ UNCHANGED plist BY <2>2 DEF Bootstrap
    <3>2. NoOld => plist' # "old" BY <3>1 DEF NoOld
    <3> QED BY <1>2, <1>4, <3>1, <3>2, ResultNames DEF Agents
  <2>3. CASE RollbackAgent(c)
    <3>1. client[c].pc = "boot" /\ client[c].prev \in Agents BY <1>2, <2>3 DEF RollbackAgent, Command
    <3>2. PICK report \in {"incomplete", "unrecovered"} : Finish(c, report) BY <2>3 DEF RollbackAgent
    <3>3. plist' = client[c].prev BY <2>3 DEF RollbackAgent
    <3>4. agent' \in {agent, "none", "new", client[c].prev}
      BY <2>3 DEF RollbackAgent, LeftLoaded, PreviousAgent
    <3>5. agent' = "old" => plist' # "none" BY <1>5, <3>1, <3>3, <3>4 DEF AgentHasFile
    <3>6. NoOld => plist' # "old" /\ agent' # "old" BY <3>1, <3>3, <3>4 DEF NoOld
    <3>7. "none" \in Agents /\ "new" \in Agents BY DEF Agents
    <3> QED BY <3>7, <1>2, <1>4, <3>1, <3>2, <3>3, <3>4, <3>5, <3>6, ResultNames
  <2>4. CASE RemoveAgent(c)
    <3>1. PICK report \in {"ok", "incomplete"} : Finish(c, report) BY <2>4 DEF RemoveAgent
    <3>2. (agent' = "none" /\ plist' = "none") \/ (agent' \in {agent, "none"} /\ UNCHANGED plist)
      BY <2>4 DEF RemoveAgent
    <3>3. agent' = "old" => plist' # "none" BY <1>5, <3>2 DEF AgentHasFile
    <3>4. NoOld => plist' # "old" /\ agent' # "old" BY <3>2 DEF NoOld
    <3> QED BY <1>2, <1>4, <3>1, <3>2, <3>3, <3>4, ResultNames DEF Agents
  <2> QED BY <2>1, <2>2, <2>3, <2>4
<1>7. faults' \in 0 .. MaxFaults
  BY FaultType DEF WriteAgent, Bootstrap, RollbackAgent, RemoveAgent, Typed
<1>8. World' BY <1>3, SameWorld DEF Typed
<1> QED BY <1>3, <1>6, <1>7, <1>8 DEF Typed, DeployTypeOK, deployVars, DbTypeOK, dbVars

-----------------------------------------------------------------------------
(* The invariant.                                                          *)

MInv == Typed /\ Held

LEMMA OrderlyStep ==
  ASSUME MInv, NEW c \in Clients, Orderly(c), DbTypeOK'
  PROVE  MInv'
<1>1. Held' BY CalmHeld DEF MInv, Orderly
<1> QED BY <1>1 DEF MInv, Typed, Orderly, Calm, agentVars

LEMMA DeployingStep ==
  ASSUME MInv, Deploying
  PROVE  MInv'
<1>1. PICK c \in Clients : Deploys(c) /\ UNCHANGED dbVars BY DEF Deploying
<1>2. DbTypeOK' BY <1>1 DEF MInv, Typed, DbTypeOK, dbVars
<1>3. CASE Orderly(c) BY <1>2, <1>3, OrderlyStep
<1>4. CASE AgentSteps(c) BY <1>1, <1>4, AgentStepHeld DEF MInv
<1>5. CASE TakeLock(c) /\ UNCHANGED deployVars
  <2>1. World' BY <1>5, SameWorld DEF TakeLock, MInv, Typed
  <2>2. /\ Held' /\ client' \in [Clients -> Command]
        /\ locks' \in [LockPaths -> Clients \cup {"supervisor", "nobody"}]
    BY <1>5, TakeLockHeld DEF MInv
  <2>3. \A d \in Clients : client'[d].was => client'[d].pc \in WasStages BY <1>5, TakeLockHeld DEF MInv
  <2> QED BY <1>2, <1>5, <2>1, <2>2, <2>3 DEF TakeLock, MInv, Typed, agentVars, DeployTypeOK, deployVars
<1>6. CASE Leave(c)
  <2>1. World' BY <1>6, SameWorld DEF Leave, MInv, Typed
  <2>2. PICK r \in Command : r.pc \in {"idle", "replug", "end"} /\ (r.was => r.pc # "idle") /\ client' = [client EXCEPT ![c] = r]
    <3>1. client[c] \in Command BY DEF MInv, Typed
    <3>2. CASE client[c].op # "upgrade"
      <4>1. client' = [client EXCEPT ![c] = Idle] BY <1>6, <3>2 DEF Leave
      <4> QED BY <4>1, IdleType
    <3>3. CASE client[c].op = "upgrade"
      <4> DEFINE pc == IF client[c].report # "ok" /\ client[c].plug # client[c].version
                       THEN "replug" ELSE "end"
                 r == [client[c] EXCEPT !.pc = pc]
      <4>1. client' = [client EXCEPT ![c] = r] BY <1>6, <3>3 DEF Leave
      <4>2. pc \in {"replug", "end"} /\ pc \in Stages BY DEF Stages
      <4> HIDE DEF pc
      <4>3. r \in Command /\ r.pc = pc BY <3>1, <4>2 DEF Command
      <4> HIDE DEF r
      <4> QED BY <4>1, <4>2, <4>3
    <3> QED BY <3>2, <3>3
  <2>3. locks' = Freed(c) /\ UNCHANGED <<agentVars, faults, deployVars>> BY <1>6 DEF Leave
  <2>4. /\ Held' /\ client' \in [Clients -> Command]
        /\ \A d \in Clients : client'[d].was => client'[d].pc \in WasStages
        /\ locks' \in [LockPaths -> Clients \cup {"supervisor", "nobody"}]
    BY <2>2, <2>3, FreedHeld DEF MInv
  <2> QED BY <1>2, <2>1, <2>3, <2>4 DEF MInv, Typed, agentVars, DeployTypeOK, deployVars
<1>7. Typed BY DEF MInv
<1>8. ASSUME NEW target \in Targets, Request(c, target) PROVE Orderly(c)
  BY <1>7, <1>8, RequestOrderly
<1>9. NothingToDo(c) \/ UpgradePlugin(c) \/ RollbackPlugin(c) => Orderly(c) BY <1>7, PluginOrderly
<1>10. \/ Refuse(c) \/ Check(c) \/ Deleted(c) \/ Look(c) \/ WaitForGatewayReady(c) \/ CheckVersion(c)
       \/ Cleaned(c) \/ GoBack(c) \/ End(c) \/ (FindsBusy(c) /\ UNCHANGED deployVars)
       => Orderly(c)
  BY <1>7, AsideOrderly
<1>11. Delete(c) \/ Start(c) \/ SavePm2State(c) \/ Clean(c) \/ Forget(c) \/ WriteRunningVersion(c)
       => Orderly(c)
  BY <1>7, CallOrderly
<1> DEFINE AtEntry == \E target \in Targets : Request(c, target)
           Plugging == NothingToDo(c) \/ UpgradePlugin(c) \/ RollbackPlugin(c)
           Looking == \/ Refuse(c) \/ Check(c) \/ Deleted(c) \/ Look(c) \/ WaitForGatewayReady(c) \/ CheckVersion(c)
                      \/ Cleaned(c) \/ GoBack(c) \/ End(c) \/ (FindsBusy(c) /\ UNCHANGED deployVars)
           Calling == \/ Delete(c) \/ Start(c) \/ SavePm2State(c) \/ Clean(c) \/ Forget(c)
                      \/ WriteRunningVersion(c)
<1>12. \/ AtEntry \/ Plugging \/ Looking \/ Calling
       \/ (TakeLock(c) /\ UNCHANGED deployVars) \/ AgentSteps(c) \/ Leave(c)
  BY <1>1 DEF Deploys, AgentSteps
<1>13. AtEntry => Orderly(c) BY <1>8
<1> HIDE DEF AtEntry, Plugging, Looking, Calling
<1>14. Plugging => Orderly(c) BY <1>9 DEF Plugging
<1>15. Looking => Orderly(c) BY <1>10 DEF Looking
<1>16. Calling => Orderly(c) BY <1>11 DEF Calling
<1> QED BY <1>3, <1>4, <1>5, <1>6, <1>12, <1>13, <1>14, <1>15, <1>16

LEMMA MaintainingStep ==
  ASSUME MInv, Maintaining
  PROVE  MInv'
<1>1. PICK c \in Clients : Maintains(c) /\ UNCHANGED deployVars BY DEF Maintaining
<1>2. Typed BY DEF MInv
<1>3. World' /\ faults' \in 0 .. MaxFaults BY <1>1, <1>2, UpkeepKeeps
<1>4. DbTypeOK' BY <1>1, <1>2, UpkeepTyped
<1>5. Calm(c) BY <1>1, <1>2, UpkeepCalm
<1>6. DeployTypeOK' BY <1>1, <1>2 DEF Typed, DeployTypeOK, deployVars
<1> QED BY <1>3, <1>4, <1>5, <1>6, OrderlyStep DEF Orderly

LEMMA ListingStep ==
  ASSUME MInv, Listing
  PROVE  MInv'
<1>1. Typed /\ Held BY DEF MInv
<1>2. DeployTypeOK' /\ DbTypeOK' BY <1>1 DEF Listing, Typed, DeployTypeOK, DbTypeOK, deployVars, dbVars
<1>3. CASE Daemon
  <2>1. World' /\ faults' \in 0 .. MaxFaults BY <1>1, <1>3, DaemonWorld DEF Typed
  <2>2. UNCHANGED <<agentVars, locks, client>> BY <1>3 DEF Daemon
  <2> QED BY <1>1, <1>2, <2>1, <2>2, ElsewhereHeld DEF MInv, Typed, agentVars
<1>4. CASE Supervise
  <2>1. World' BY <1>1, <1>4, SameWorld DEF Supervise, Typed
  <2>2. /\ \A path \in LockPaths : locks[path] # "nobody" => locks'[path] = locks[path]
        /\ locks' \in [LockPaths -> Clients \cup {"supervisor", "nobody"}]
    BY <1>1, <1>4 DEF Supervise, Typed
  <2>3. sup' = "missing" /\ UNCHANGED <<plist, agent, client, faults>> BY <1>4 DEF Supervise
  <2>4. HoldsThem'
    <3>1. \A c \in Clients : Taken(c) \subseteq Taken(c)' BY <2>2, Pm2Constants DEF Taken
    <3> QED BY <1>1, <2>3, <3>1 DEF Held, HoldsThem
  <2>5. AsksRight' /\ AgentHasFile' BY <1>1, <2>3 DEF Held, AsksRight, AgentHasFile, NoOld
  <2>6. WatchHolds' BY <1>4, <2>3 DEF Supervise, WatchHolds, SupervisorPaths, LockPaths
  <2> QED BY <1>1, <1>2, <2>1, <2>2, <2>3, <2>4, <2>5, <2>6 DEF MInv, Typed, Held
<1>5. CASE Resurrect
  <2>1. World'
    <3>1. dump \in Release /\ World BY <1>1 DEF Typed, World
    <3>2. CASE UNCHANGED <<lockVars, daemonVars>> BY <3>1, <3>2, SameWorld
    <3>3. CASE Fork(dump) /\ UNCHANGED dump BY <3>1, <3>3, ForkWorld DEF World
    <3> QED BY <1>5, <3>2, <3>3 DEF Resurrect
  <2>2. faults' \in 0 .. MaxFaults BY <1>1, <1>5, FaultType DEF Resurrect, Typed
  <2>3. sup' = "idle" /\ UNCHANGED <<plist, agent, client>> /\ locks' = Freed("supervisor")
    BY <1>5 DEF Resurrect
  <2>4. locks' \in [LockPaths -> Clients \cup {"supervisor", "nobody"}] BY <1>1, <2>3 DEF Freed, Typed
  <2>5. HoldsThem'
    <3>1. \A c \in Clients : Taken(c) \subseteq Taken(c)' BY <2>3, Pm2Constants DEF Taken, Freed
    <3> QED BY <1>1, <2>3, <3>1 DEF Held, HoldsThem
  <2>6. AsksRight' /\ AgentHasFile' /\ WatchHolds'
    BY <1>1, <2>3 DEF Held, AsksRight, AgentHasFile, NoOld, WatchHolds
  <2> QED BY <1>1, <1>2, <2>1, <2>2, <2>3, <2>4, <2>5, <2>6 DEF MInv, Typed, Held
<1> QED BY <1>3, <1>4, <1>5 DEF Listing, Supervisor

LEMMA WorkingStep ==
  ASSUME MInv, Working
  PROVE  MInv'
<1>1. Typed /\ Held BY DEF MInv
<1>2. DeployTypeOK' BY <1>1 DEF Working, Typed, DeployTypeOK, deployVars
<1>3. DbTypeOK' BY <1>1, WorkTyped DEF Working
<1>4. CASE GatewayAndOthers
  <2>1. Processes BY <1>4 DEF GatewayAndOthers
  <2>2. World' /\ faults' \in 0 .. MaxFaults BY <1>1, <2>1, ProcessWorld DEF Typed
  <2>3. UNCHANGED <<agentVars, locks, client>> BY <2>1 DEF Processes
  <2> QED BY <1>1, <1>2, <1>3, <2>2, <2>3, ElsewhereHeld DEF MInv, Typed, agentVars
<1>5. CASE Database
  <2>1. Offside /\ UNCHANGED client BY <1>5 DEF Database
  <2>2. World' /\ faults' \in 0 .. MaxFaults BY <1>1, <2>1, OffsideKeeps
  <2>3. UNCHANGED <<agentVars, locks, client>> BY <2>1 DEF Offside
  <2> QED BY <1>1, <1>2, <1>3, <2>2, <2>3, ElsewhereHeld DEF MInv, Typed, agentVars
<1> QED BY <1>4, <1>5 DEF Working

LEMMA KillStep ==
  ASSUME MInv, NEW c \in Clients, Kill(c)
  PROVE  MInv'
<1>1. Typed /\ Held /\ Killed(c) BY DEF MInv, Kill
<1>2. World' /\ faults' \in 0 .. MaxFaults BY <1>1, SameWorld, FaultType DEF Killed, Typed
<1>3. DeployTypeOK' /\ DbTypeOK' BY <1>1 DEF Kill, Typed, DeployTypeOK, DbTypeOK, deployVars
<1>4. locks' = Freed(c) /\ client' = [client EXCEPT ![c] = Idle] /\ UNCHANGED agentVars
  BY <1>1 DEF Killed
<1>5. /\ Held' /\ client' \in [Clients -> Command]
      /\ \A d \in Clients : client'[d].was => client'[d].pc \in WasStages
      /\ locks' \in [LockPaths -> Clients \cup {"supervisor", "nobody"}]
  BY <1>1, <1>4, FreedHeld, IdleType
<1> QED BY <1>1, <1>2, <1>3, <1>4, <1>5 DEF MInv, Typed, agentVars

\* Nobody holds a lock, and no command is under way.
LEMMA AtRestHeld ==
  ASSUME locks = [path \in LockPaths |-> "nobody"], client = [c \in Clients |-> Idle], sup = "idle",
         agent = "old" => plist # "none"
  PROVE  Held
<1>1. \A c \in Clients : client[c].pc = "idle" BY IdleType
<1> QED BY <1>1 DEF Held, HoldsThem, AsksRight, AgentHasFile, WatchHolds, Inside, Away

LEMMA RebootStep ==
  ASSUME MInv, PowerFails
  PROVE  MInv'
<1>1. Typed /\ Held /\ Reboot BY DEF MInv, PowerFails
<1>2. World' BY <1>1, RebootWorld DEF Typed
<1>3. faults' \in 0 .. MaxFaults BY <1>1, FaultType DEF Reboot, Typed
<1>4. DeployTypeOK' /\ DbTypeOK' BY <1>1 DEF PowerFails, Typed, DeployTypeOK, DbTypeOK, deployVars
<1>5. /\ locks' = [path \in LockPaths |-> "nobody"] /\ client' = [c \in Clients |-> Idle]
      /\ sup' = "idle" /\ agent' = plist /\ UNCHANGED plist
  BY <1>1 DEF Reboot
<1>6. locks' \in [LockPaths -> Clients \cup {"supervisor", "nobody"}] /\ client' \in [Clients -> Command]
  BY <1>5, IdleType
<1>7. \A c \in Clients : client'[c].pc = "idle" /\ ~client'[c].was BY <1>5, IdleType
<1>8. Held' BY <1>5, <1>7 DEF Held, HoldsThem, AsksRight, AgentHasFile, WatchHolds, Inside, Away
<1> QED BY <1>1, <1>2, <1>3, <1>4, <1>5, <1>6, <1>7, <1>8 DEF MInv, Typed

LEMMA InitHeld == Init => MInv
<1> SUFFICES ASSUME Init PROVE MInv
  OBVIOUS
<1>1. NoVersion \in Release /\ Versions \subseteq Release BY DEF Release
<1>2. DbTypeOK
  <2>1. DbInit /\ 0 \in 0 .. MaxRuns BY MaintenanceConstants DEF Init
  <2>2. open \in BOOLEAN /\ cut \in BOOLEAN BY <2>1, Zenon DEF DbInit
  <2> QED BY <2>1, <2>2 DEF DbInit, DbTypeOK
<1>3. 0 \in 0 .. MaxFaults BY Pm2Constants
<1>4. CASE NotInstalled
  <2>1. World
    <3>1. LockInv BY <1>4, InitLock DEF NotInstalled, Pm2Init
    <3> QED BY <1>1, <1>4, <3>1 DEF NotInstalled, Pm2Init, World, Entry, NoEntry, Statuses
  <2>2. Held BY <1>4, AtRestHeld DEF NotInstalled, Pm2Init
  <2>3. /\ locks \in [LockPaths -> Clients \cup {"supervisor", "nobody"}] /\ client \in [Clients -> Command]
        /\ \A c \in Clients : ~client[c].was
    BY <1>4, IdleType DEF NotInstalled, Pm2Init
  <2> QED BY <1>1, <1>2, <1>3, <1>4, <2>1, <2>2, <2>3
          DEF NotInstalled, Pm2Init, MInv, Typed, DeployTypeOK, Agents
<1>5. ASSUME NEW p \in Pids, NEW v \in Versions, Installed(p, v) PROVE MInv
  <2>1. LockInv
    <3>1. proc \in [Pids -> Phases] /\ image \in [Pids -> Versions \cup {NoVersion}] /\ lock \in Row
      BY <1>5 DEF Installed, Phases, Row
    <3>2. \A q \in Pids : q # p => proc[q] = "gone" BY <1>5 DEF Installed
    <3> QED BY <1>5, <3>1, <3>2 DEF Installed, LockInv, LockTypeOK, Owned, Works
  <2>2. World BY <1>1, <1>5, <2>1 DEF Installed, World, Entry, Statuses
  <2>3. Held BY <1>5, AtRestHeld DEF Installed
  <2>4. /\ locks \in [LockPaths -> Clients \cup {"supervisor", "nobody"}] /\ client \in [Clients -> Command]
        /\ \A c \in Clients : ~client[c].was
    BY <1>5, IdleType DEF Installed
  <2> QED BY <1>1, <1>2, <1>3, <1>5, <2>2, <2>3, <2>4 DEF Installed, MInv, Typed, DeployTypeOK, Agents
<1> QED BY <1>4, <1>5 DEF Init

LEMMA NextHeld == MInv /\ [Next]_vars => MInv'
<1> SUFFICES ASSUME MInv, [Next]_vars PROVE MInv'
  OBVIOUS
<1>1. CASE UNCHANGED vars
  <2>1. UNCHANGED <<lockVars, daemonVars, agentVars, locks, client, faults, deployVars, dbVars>>
    BY <1>1 DEF vars, pm2Vars
  <2>2. World' BY <2>1, SameWorld DEF MInv, Typed
  <2>3. Held' BY <2>1, ElsewhereHeld DEF MInv
  <2> QED BY <2>1, <2>2, <2>3
          DEF MInv, Typed, DeployTypeOK, DbTypeOK, deployVars, dbVars, agentVars
<1> QED BY <1>1, DeployingStep, MaintainingStep, ListingStep, WorkingStep, KillStep, RebootStep DEF Next

(* Every reachable state satisfies the invariant, from which the theorems  *)
(* below follow (withManagementLock in daemon/pm2.ts, superviseOnce in     *)
(* daemon/pm2-supervisor.ts, acquireLock in gateway/index.ts).             *)
THEOREM ManagementInvariance == Spec => []MInv
  BY InitHeld, NextHeld, PTL DEF Spec

(* Every variable keeps its type, through every command, fault and reboot. *)
THEOREM TypeCorrect == Spec => []TypeOK
<1>1. MInv => TypeOK BY DEF MInv, Typed, World, LockInv, TypeOK, Pm2TypeOK
<1> QED BY ManagementInvariance, <1>1, PTL

(* Two Gateways never work on one database, also when PM2, the supervisor, *)
(* operators and a reboot start and kill them at any moment (acquireLock). *)
THEOREM NeverTwoGateways == Spec => []OneGateway
<1>1. MInv => OneGateway BY DEF MInv, Typed, World, LockInv, Owned, OneGateway
<1> QED BY ManagementInvariance, <1>1, PTL

(* No two commands, and no command and the supervisor, change what PM2     *)
(* runs together, for any number of commands and with a supervisor of the  *)
(* earlier release (withManagementLock, superviseOnce).                    *)
THEOREM NeverManagedByTwo == Spec => []ManagedByOne
<1>1. MInv => ManagedByOne BY ActsAlone DEF MInv
<1> QED BY ManagementInvariance, <1>1, PTL
=============================================================================
