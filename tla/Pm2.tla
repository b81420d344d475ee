--------------------------------- MODULE Pm2 ---------------------------------
(***************************************************************************)
(* The Gateway under PM2, and who may tell PM2 what to do.                 *)
(*                                                                         *)
(* PM2 keeps one entry for the Gateway: it starts it again when it ends,   *)
(* and stops or deletes it on demand, which takes as long as the Gateway   *)
(* takes to end.  A call of the pm2 command may fail, or fail although PM2 *)
(* has done or goes on doing what was asked.  A supervisor resurrects the  *)
(* entry from the dump when the daemon has lost it.                        *)
(*                                                                         *)
(* The supervisor and every command that manages the Gateway take locks:   *)
(* a canonical one, and one an earlier release was configured with, which  *)
(* is the only one a supervisor of that release knows.                     *)
(***************************************************************************)
EXTENDS GatewayLock

CONSTANTS
  Clients,        \* processes that run commands: CLI calls and plugins
  MaxFaults       \* bound: crashes, failed calls and stray processes of a behaviour

ASSUME Pm2Constants ==
  /\ {"supervisor", "nobody"} \cap Clients = {}
  /\ MaxFaults \in Nat

VARIABLES
  entry,          \* the process PM2 lists as supertask-gateway
  dump,           \* the release whose entry pm2 save has written, if any
  plist, agent,   \* the LaunchAgent on disk, and the one that is loaded
  sup,            \* the supervisor: "idle", or "missing": about to resurrect
  locks,          \* who holds the management locks
  client,         \* the command a client runs
  faults

daemonVars == <<entry, dump>>
agentVars == <<plist, agent, sup>>
pm2Vars == <<lockVars, daemonVars, agentVars, locks, client, faults>>

Release == Versions \cup {NoVersion}
Statuses == {"none", "online", "waiting", "stopping", "deleting", "restarting", "stopped", "errored"}
Agents == {"none", "old", "new"}
LockPaths == {"canonical", "legacy"}
Ops == {"none", "install", "uninstall", "upgrade", "ensure", "clear", "restore"}

Stages ==
  {"idle", "plugin", "replug", "locking", "enter", "leave", "end",
   "delete", "deleting", "start", "look", "ready", "version", "save", "note", "clean", "cleaning", "restore",
   "forget", "agent", "boot", "unload",
   "halt", "halting", "since", "assess", "begin", "commit", "revive", "watch", "await"}

Results ==
  {"none", "busy", "refused", "already", "ok", "failed", "rolledback", "incomplete", "unrecovered"}

\* pid: NoPid as long as nothing runs.
Entry == [app : Release, status : Statuses, pid : Pids \cup {NoPid}]
NoEntry == [app |-> NoVersion, status |-> "none", pid |-> NoPid]

\* A command: where it is, what it shall run, and what it has seen.
Command ==
  [op : Ops, pc : Stages, report : Results, paths : SUBSET LockPaths,
   app : Release, version : Release, old : Release, before : Release, plug : Release,
   pid : Pids \cup {NoPid}, told : BOOLEAN,
   back : BOOLEAN, prev : Agents, loaded : BOOLEAN,
   keep : BOOLEAN, was : BOOLEAN, baseline : Nat]

Idle ==
  [op |-> "none", pc |-> "idle", report |-> "none", paths |-> {},
   app |-> NoVersion, version |-> NoVersion, old |-> NoVersion, before |-> NoVersion,
   plug |-> NoVersion, pid |-> NoPid, told |-> FALSE,
   back |-> FALSE, prev |-> "none", loaded |-> FALSE,
   keep |-> FALSE, was |-> FALSE, baseline |-> 0]

Pm2TypeOK ==
  /\ LockTypeOK
  /\ entry \in Entry
  /\ dump \in Release
  /\ plist \in Agents /\ agent \in Agents
  /\ sup \in {"idle", "missing"}
  /\ locks \in [LockPaths -> Clients \cup {"supervisor", "nobody"}]
  /\ client \in [Clients -> Command]
  /\ faults \in 0 .. MaxFaults

Pm2Init ==
  /\ LockInit
  /\ entry = NoEntry
  /\ dump = NoVersion
  /\ plist = "none" /\ agent = "none" /\ sup = "idle"
  /\ locks = [path \in LockPaths |-> "nobody"]
  /\ client = [c \in Clients |-> Idle]
  /\ faults = 0

Fault == faults < MaxFaults /\ faults' = faults + 1

-----------------------------------------------------------------------------
(* The PM2 daemon.                                                         *)

\* PM2 has told the process to end, and kills it after kill_timeout.
Doomed(p) == entry.pid = p /\ entry.status \in {"stopping", "deleting", "restarting"}

\* A pid is free again when PM2 has noticed the end of the process.
Fork(app) ==
  \E p \in Pids \ {entry.pid} :
     /\ Spawn(p, "boot", app)
     /\ entry' = [app |-> app, status |-> "online", pid |-> p]

\* The process of the entry has ended.
Reap ==
  /\ entry.pid # NoPid /\ proc[entry.pid] = "gone"
  /\ entry' = CASE entry.status = "deleting" -> NoEntry
                [] entry.status = "stopping" -> [entry EXCEPT !.status = "stopped", !.pid = NoPid]
                [] OTHER -> [entry EXCEPT !.status = "waiting", !.pid = NoPid]
  /\ UNCHANGED <<lockVars, dump, faults>>

\* After the restart delay.
Restart ==
  /\ entry.status = "waiting"
  /\ Fork(entry.app)
  /\ UNCHANGED <<dump, faults>>

\* max_restarts is reached.
GiveUp ==
  /\ entry.status = "waiting"
  /\ Fault
  /\ entry' = [entry EXCEPT !.status = "errored"]
  /\ UNCHANGED <<lockVars, dump>>

Daemon == (Reap \/ Restart \/ GiveUp) /\ UNCHANGED <<agentVars, locks, client>>

(* What a call makes PM2 do.                                               *)

\* pm2 stop and pm2 delete.
Terminate(status) ==
  /\ entry' = IF entry.pid # NoPid
              THEN [entry EXCEPT !.status = status]
              ELSE IF status = "deleting" THEN NoEntry ELSE [entry EXCEPT !.status = "stopped"]
  /\ UNCHANGED <<lockVars, dump>>

\* pm2 start of a script: an entry of that name that is at rest is started
\* as it is, and one that is not makes the call fail.
StartScript(app) ==
  /\ IF entry = NoEntry THEN Fork(app)
     ELSE entry.status \in {"stopped", "errored"} /\ Fork(entry.app)
  /\ UNCHANGED dump

\* pm2 start of a name: the entry is started again; of one whose process is
\* still told to end, nothing is.
MayStartName == entry.status \notin {"none", "deleting", "stopping"}

StartName ==
  /\ MayStartName
  /\ IF entry.pid = NoPid THEN Fork(entry.app)
     ELSE entry' = [entry EXCEPT !.status = "restarting"] /\ UNCHANGED lockVars
  /\ UNCHANGED dump

Save == dump' = entry.app /\ UNCHANGED <<lockVars, entry>>

-----------------------------------------------------------------------------
(* The Gateway and other processes.                                        *)

\* The signal of PM2 reaches the process, which may not listen to it yet.
Heed(p) ==
  /\ Doomed(p)
  /\ \/ BeginShutdown(p)
     \/ proc[p] = "boot" /\ Die(p)

\* What a Gateway does of itself.
Runs(p) ==
  /\ \/ AcquireLock(p) \/ ExitWithoutLock(p)
     \/ UpdateLockHeartbeat(p) \/ MarkGatewayReady(p)
     \/ ReleaseLock(p) \/ Heed(p)
     \/ proc[p] = "leaving" /\ Die(p)
  /\ UNCHANGED <<daemonVars, faults>>

\* A crash, a signal from somebody else, "restart" on the Dashboard; a
\* Gateway started by hand; the pid of a dead owner given to another process.
Strikes(p) ==
  /\ Fault
  /\ \/ proc[p] \in {"boot", "starting", "up", "stopping"} /\ Die(p)
     \/ BeginShutdown(p)
     \/ p # entry.pid /\ \E version \in Versions : Spawn(p, "boot", version)
     \/ p # entry.pid /\ lock.pid = p /\ \E phase \in {"other", "elsewhere"} : Spawn(p, phase, NoVersion)
  /\ UNCHANGED daemonVars

Processes ==
  /\ \/ \E p \in Pids : Runs(p) \/ Strikes(p)
     \/ \E p \in Pids : proc[p] \in {"other", "elsewhere"} /\ Die(p) /\ UNCHANGED <<daemonVars, faults>>
     \/ Age /\ UNCHANGED <<daemonVars, faults>>
  /\ UNCHANGED <<agentVars, locks, client>>

-----------------------------------------------------------------------------
(* The locks of the commands.                                              *)

Taken(c) == {path \in LockPaths : locks[path] = c}
Freed(c) == [path \in LockPaths |-> IF locks[path] = c THEN "nobody" ELSE locks[path]]

\* Fault: only the lock of this release is taken.
CanonicalOnly == {"canonical"}

\* The lock of the earlier release is known from the LaunchAgent on disk.
SavedManagementLockPaths ==
  IF plist = "none" THEN {"canonical"} ELSE LockPaths

Go(c, pc) == client' = [client EXCEPT ![c].pc = pc]

\* The canonical lock comes first.
NextPath(c) == IF locks["canonical"] = c THEN "legacy" ELSE "canonical"

TakeLock(c) ==
  /\ client[c].pc = "locking"
  /\ locks[NextPath(c)] = "nobody"
  /\ locks' = [locks EXCEPT ![NextPath(c)] = c]
  /\ Go(c, IF client[c].paths = Taken(c) \cup {NextPath(c)} THEN "enter" ELSE "locking")
  /\ UNCHANGED <<lockVars, daemonVars, agentVars, faults>>

\* Another command is still at work when the time to wait is over.
FindsBusy(c) ==
  /\ client[c].pc = "locking"
  /\ locks[NextPath(c)] # "nobody"
  /\ client' = [client EXCEPT ![c].pc = "leave", ![c].report = "busy"]
  /\ UNCHANGED <<lockVars, daemonVars, agentVars, locks, faults>>

\* The process of a command is killed: SQLite frees its locks.
Killed(c) ==
  /\ client[c].pc # "idle"
  /\ Fault
  /\ locks' = Freed(c)
  /\ client' = [client EXCEPT ![c] = Idle]
  /\ UNCHANGED <<lockVars, daemonVars, agentVars>>

\* A command that has its locks and changes what PM2 runs.
Acts(c) == client[c].pc \notin {"idle", "plugin", "replug", "locking", "leave", "end"}

Finish(c, report) == client' = [client EXCEPT ![c].pc = "leave", ![c].report = report]

\* Calls PM2: it does what it is asked and the call succeeds, or the call
\* fails, whether PM2 does it or not.
Call(effect, done, failed) ==
  \/ effect /\ done /\ UNCHANGED faults
  \/ Fault /\ failed /\ (effect \/ UNCHANGED <<lockVars, daemonVars>>)

-----------------------------------------------------------------------------
(* The supervisor.                                                         *)

SupervisorPaths == IF agent = "old" THEN {"legacy"} ELSE LockPaths

\* Fault: only an entry in error is brought back.
LostOnly == entry.status = "errored" /\ dump # NoVersion

\* The daemon has no entry, though one was saved: stopped on purpose is not lost.
Lost == entry = NoEntry /\ dump # NoVersion

\* It does not wait for locks, and looks again five seconds later.
Supervise ==
  /\ agent # "none" /\ sup = "idle"
  /\ \A path \in SupervisorPaths : locks[path] = "nobody"
  /\ Lost
  /\ sup' = "missing"
  /\ locks' = [path \in LockPaths |-> IF path \in SupervisorPaths THEN "supervisor" ELSE locks[path]]
  /\ UNCHANGED <<lockVars, daemonVars, plist, agent, client, faults>>

Resurrect ==
  /\ sup = "missing"
  /\ \/ entry = NoEntry /\ Fork(dump) /\ UNCHANGED <<dump, faults>>
     \/ entry # NoEntry /\ UNCHANGED <<lockVars, daemonVars, faults>>
     \/ Fault /\ UNCHANGED <<lockVars, daemonVars>>
  /\ sup' = "idle"
  /\ locks' = Freed("supervisor")
  /\ UNCHANGED <<plist, agent, client>>

\* Everything but the files is gone, and launchd loads the agent again.
Reboot ==
  /\ Fault
  /\ proc' = [p \in Pids |-> "gone"] /\ image' = [p \in Pids |-> NoVersion] /\ UNCHANGED lock
  /\ entry' = NoEntry /\ UNCHANGED dump
  /\ agent' = plist /\ sup' = "idle" /\ UNCHANGED plist
  /\ locks' = [path \in LockPaths |-> "nobody"]
  /\ client' = [c \in Clients |-> Idle]

Supervisor == Supervise \/ Resurrect

-----------------------------------------------------------------------------
(* Correctness.                                                            *)

(* Whoever changes what PM2 runs does so alone: two commands never act     *)
(* together, and a Gateway that a command has stopped or deleted is not    *)
(* resurrected behind its back, not even by the supervisor of a release    *)
(* that knows one of the locks only (withManagementLock in daemon/pm2.ts,  *)
(* superviseOnce in daemon/pm2-supervisor.ts).                             *)
ManagedByOne ==
  \A c \in Clients : Acts(c) =>
     /\ sup = "idle"
     /\ \A d \in Clients : Acts(d) => d = c
=============================================================================
