----------------------------- MODULE Deployment -----------------------------
(***************************************************************************)
(* Commands that install, upgrade, ensure and remove the Gateway.          *)
(*                                                                         *)
(* Each first deletes the entry PM2 has, then starts the new one, waits    *)
(* until it is ready under the lock of the database, saves the list and    *)
(* notes the version; when that fails it goes back to the entry it found.  *)
(* Every step is a call of pm2 that may fail, and the Gateway, PM2 and     *)
(* other commands go on in between.                                        *)
(***************************************************************************)
EXTENDS Pm2

CONSTANTS
  Targets,        \* [op, app, version] that are asked for
  Plugins         \* the clients that are plugins in an OpenCode

ASSUME DeploymentConstants ==
  /\ Targets \subseteq [op : Ops, app : Versions, version : Versions]
  /\ Plugins \subseteq Clients

VARIABLES
  noted,          \* the version file of the Gateway
  plugin          \* the release OpenCode is configured to load

deployVars == <<noted, plugin>>

DeployTypeOK == noted \in Release /\ plugin \in Release

Changes == {"install", "upgrade", "ensure"}

\* The rest of the world goes on while a command looks at it or decides.
Aside == UNCHANGED <<lockVars, daemonVars, agentVars, locks, faults, deployVars>>

-----------------------------------------------------------------------------
(* Before the locks.                                                       *)

\* A plugin leaves a Gateway of a later release alone, as far as the row of
\* the lock tells one.
ShouldAttemptGatewayReplacement(version) ==
  lock.version = NoVersion \/ version >= lock.version

NewCommand(target, pc) ==
  [Idle EXCEPT !.op = target.op, !.app = target.app, !.version = target.version, !.pc = pc,
               !.paths = SavedManagementLockPaths, !.plug = plugin]

Request(c, target) ==
  /\ client[c].pc = "idle"
  /\ target.op = "ensure" <=> c \in Plugins
  /\ target.op = "ensure" =>
       /\ ~(lock.ready /\ lock.fresh /\ lock.version = target.version)
       /\ ShouldAttemptGatewayReplacement(target.version)
  /\ client' = [client EXCEPT ![c] =
                  NewCommand(target, IF target.op = "upgrade" THEN "plugin" ELSE "locking")]
  /\ Aside

\* An upgrade that finds everything at the latest release, or cannot tell.
NothingToDo(c) ==
  /\ client[c].pc = "plugin"
  /\ client' = [client EXCEPT ![c] = Idle]
  /\ Aside

\* opencode is told to load a release; it may have been although this fails.
InstallPlugin(version, done, failed) ==
  /\ \/ plugin' = version /\ done /\ UNCHANGED faults
     \/ Fault /\ plugin' \in {plugin, version} /\ failed
  /\ UNCHANGED <<lockVars, daemonVars, agentVars, locks, noted>>

\* The plugin of the new release comes first, and under no lock.
UpgradePlugin(c) ==
  /\ client[c].pc = "plugin"
  /\ InstallPlugin(client[c].version,
       client' = [client EXCEPT ![c].pc = "locking", ![c].paths = SavedManagementLockPaths],
       client' = [client EXCEPT ![c].pc = "replug", ![c].report = "failed"])

\* The previous plugin again, as the Gateway is the previous one.
RollbackPlugin(c) ==
  /\ client[c].pc = "replug"
  /\ InstallPlugin(client[c].plug, Go(c, "end"),
       client' = [client EXCEPT ![c].pc = "end", ![c].report = "unrecovered"])

-----------------------------------------------------------------------------
(* Under the locks.                                                        *)

Enters(c) == client[c].pc = "enter" /\ client[c].op \in Changes \cup {"uninstall"}

\* Nothing is touched: an entry that cannot be verified or is of another
\* scope, times that do not fit, work in flight, an OpenCode that does not run.
Refuse(c) == Enters(c) /\ Finish(c, "refused") /\ Aside

AlreadyRunning(c) ==
  /\ client[c].op = "ensure"
  /\ entry.status = "online" /\ IsReady(entry.pid)
  /\ lock.version = client[c].version

\* The entry and the version as found are what to go back to.
Check(c) ==
  /\ Enters(c)
  /\ IF AlreadyRunning(c) THEN Finish(c, "already")
     ELSE client' = [client EXCEPT
            ![c].pc = IF entry # NoEntry THEN "delete"
                      ELSE IF client[c].op = "uninstall" THEN "forget" ELSE "start",
            ![c].old = entry.app, ![c].before = noted]
  /\ Aside

\* A failure here leaves PM2 alone, which may be deleting the entry still.
Delete(c) ==
  /\ client[c].pc = "delete"
  /\ Call(Terminate("deleting"), Go(c, "deleting"), Finish(c, "failed"))
  /\ UNCHANGED <<agentVars, locks, deployVars>>

Deleted(c) ==
  /\ client[c].pc = "deleting" /\ entry = NoEntry
  /\ Go(c, IF client[c].op = "uninstall" THEN "forget" ELSE "start")
  /\ Aside

\* back: the entry found at first is being restored.
Target(c) == IF client[c].back THEN client[c].old ELSE client[c].app

\* Fault: the first failure ends the command.
NoRollback(c) == Finish(c, IF client[c].back THEN "unrecovered" ELSE "rolledback")

\* Rolls back, or gives up when that is what failed.
Fails(c) == IF client[c].back THEN Finish(c, "unrecovered") ELSE Go(c, "clean")

Start(c) ==
  /\ client[c].pc = "start"
  /\ \/ Call(StartScript(Target(c)), Go(c, "look"), Fails(c))
     \/ /\ entry.status \notin {"none", "stopped", "errored"}
        /\ Fails(c) /\ UNCHANGED <<lockVars, daemonVars, faults>>
  /\ UNCHANGED <<agentVars, locks, deployVars>>

IsStarted(c) == entry.status = "online" /\ entry.app = Target(c)

Look(c) ==
  /\ client[c].pc = "look"
  /\ IF IsStarted(c) THEN client' = [client EXCEPT ![c].pc = "ready", ![c].pid = entry.pid]
     ELSE Fails(c)
  /\ Aside

\* The lock has to name the process that was started, as ready; the time to
\* wait may be over before.
WaitForGatewayReady(c) ==
  /\ client[c].pc = "ready"
  /\ IF IsReady(client[c].pid) THEN Go(c, "version") ELSE Fails(c)
  /\ Aside

\* gatewayVersionFromLock: a second look at the row, which may tell no
\* release or be another's by now.
ReadyVersion(c) == IF lock.pid = client[c].pid THEN lock.version ELSE NoVersion

\* Fault: a ready Gateway is taken for the one that was asked for.
AnyRelease(c) == TRUE

\* The files may be of another release than their package says; a row that
\* tells none is accepted.
IsExpected(c) == client[c].back \/ ReadyVersion(c) \in {NoVersion, client[c].version}

CheckVersion(c) ==
  /\ client[c].pc = "version"
  /\ IF IsExpected(c)
     THEN client' = [client EXCEPT ![c].pc = "save", ![c].told = (ReadyVersion(c) # NoVersion)]
     ELSE Fails(c)
  /\ Aside

SavePm2State(c) ==
  /\ client[c].pc = "save"
  /\ Call(Save, Go(c, "note"), Fails(c))
  /\ UNCHANGED <<agentVars, locks, deployVars>>

Noted(c) ==
  IF ~client[c].back THEN client[c].version
  ELSE IF client[c].before # NoVersion THEN client[c].before ELSE noted

WriteRunningVersion(c) ==
  /\ client[c].pc = "note"
  /\ \/ /\ noted' = Noted(c)
        /\ IF client[c].back THEN Finish(c, "rolledback")
           ELSE IF client[c].op = "install" THEN Go(c, "agent") ELSE Finish(c, "ok")
        /\ UNCHANGED faults
     \/ Fault /\ Fails(c) /\ UNCHANGED noted
  /\ UNCHANGED <<lockVars, daemonVars, agentVars, locks, plugin>>

\* What was started is deleted, and failing to is only mentioned.
Clean(c) ==
  /\ client[c].pc = "clean"
  /\ IF entry # NoEntry THEN Call(Terminate("deleting"), Go(c, "cleaning"), Go(c, "restore"))
     ELSE Go(c, "restore") /\ UNCHANGED <<lockVars, daemonVars, faults>>
  /\ UNCHANGED <<agentVars, locks, deployVars>>

Cleaned(c) ==
  /\ client[c].pc = "cleaning" /\ entry = NoEntry
  /\ Go(c, "restore")
  /\ Aside

GoBack(c) ==
  /\ client[c].pc = "restore"
  /\ IF client[c].old = NoVersion THEN Finish(c, "failed")
     ELSE client' = [client EXCEPT ![c].pc = "start", ![c].back = TRUE, ![c].pid = NoPid]
  /\ Aside

Forget(c) ==
  /\ client[c].pc = "forget"
  /\ Call(Save, Go(c, "unload"), Finish(c, "failed"))
  /\ UNCHANGED <<agentVars, locks, deployVars>>

-----------------------------------------------------------------------------
(* The LaunchAgent that runs the supervisor.                               *)

Unchanging == UNCHANGED <<lockVars, daemonVars, sup, locks, deployVars>>

\* The file is written, and what was loaded is booted out, if that works.
WriteAgent(c) ==
  /\ client[c].pc = "agent"
  /\ plist' = "new"
  /\ \/ agent' = "none" /\ UNCHANGED faults
     \/ Fault /\ UNCHANGED agent
  /\ client' = [client EXCEPT ![c].pc = "boot", ![c].prev = plist,
                              ![c].loaded = (plist # "none" /\ agent # "none")]
  /\ Unchanging

\* Only what is not loaded can be.
Bootstrap(c) ==
  /\ client[c].pc = "boot" /\ agent = "none"
  /\ agent' = "new"
  /\ Finish(c, "ok")
  /\ UNCHANGED <<plist, faults>> /\ Unchanging

\* Fault: the file written before is put back, and what it started is not.
ForgottenAgent(c) == "none"

\* What runs again once the previous file is back.
PreviousAgent(c) == client[c].prev

\* What is left loaded: what could not be booted out at first, or the new
\* one, if that does not run as it should and cannot be booted out either.
LeftLoaded == IF agent = "none" THEN {"none", "new"} ELSE {agent}

\* Not loaded, or not running as it should: the previous file is restored,
\* and loaded again if it was and nothing else is.
RollbackAgent(c) ==
  /\ client[c].pc = "boot"
  /\ agent = "none" => Fault
  /\ agent # "none" => UNCHANGED faults
  /\ plist' = client[c].prev
  /\ \E left \in LeftLoaded :
       \/ ~client[c].loaded /\ agent' = left /\ Finish(c, "incomplete")
       \/ client[c].loaded /\ left = "none" /\ agent' = PreviousAgent(c) /\ Finish(c, "incomplete")
       \/ client[c].loaded /\ agent' = left /\ Finish(c, "unrecovered")
  /\ Unchanging

RemoveAgent(c) ==
  /\ client[c].pc = "unload"
  /\ \/ agent' = "none" /\ plist' = "none" /\ Finish(c, "ok") /\ UNCHANGED faults
     \/ Fault /\ agent' \in {agent, "none"} /\ UNCHANGED plist /\ Finish(c, "incomplete")
  /\ Unchanging

-----------------------------------------------------------------------------
(* The end of a command.                                                   *)

Leave(c) ==
  /\ client[c].pc = "leave"
  /\ locks' = Freed(c)
  /\ client' = [client EXCEPT ![c] =
       IF client[c].op # "upgrade" THEN Idle
       ELSE [@ EXCEPT !.pc = IF client[c].report # "ok" /\ client[c].plug # client[c].version
                             THEN "replug" ELSE "end"]]
  /\ UNCHANGED <<lockVars, daemonVars, agentVars, faults, deployVars>>

End(c) ==
  /\ client[c].pc = "end"
  /\ client' = [client EXCEPT ![c] = Idle]
  /\ Aside

Deploys(c) ==
  \/ \E target \in Targets : Request(c, target)
  \/ NothingToDo(c) \/ UpgradePlugin(c) \/ RollbackPlugin(c)
  \/ (TakeLock(c) \/ FindsBusy(c)) /\ UNCHANGED deployVars
  \/ Refuse(c) \/ Check(c) \/ Delete(c) \/ Deleted(c)
  \/ Start(c) \/ Look(c) \/ WaitForGatewayReady(c) \/ CheckVersion(c)
  \/ SavePm2State(c) \/ WriteRunningVersion(c)
  \/ Clean(c) \/ Cleaned(c) \/ GoBack(c) \/ Forget(c)
  \/ WriteAgent(c) \/ Bootstrap(c) \/ RollbackAgent(c) \/ RemoveAgent(c)
  \/ Leave(c) \/ End(c)

-----------------------------------------------------------------------------
(* Correctness.                                                            *)

Reports(c, report) == client[c].pc = "leave" /\ client[c].report = report

(* A command that reports success has left PM2's entry, its dump, the      *)
(* version file, for an upgrade the plugin, and a Gateway that serves at   *)
(* one release, the one asked for, although the files may not be what      *)
(* their package says and the Gateway may crash at any moment; if the row  *)
(* told the command nothing, the files are taken for what they should be   *)
(* (install, upgrade and ensureGateway in pm2.ts).                         *)
SuccessAgrees ==
  \A c \in Clients :
    Reports(c, "ok") /\ client[c].op \in Changes =>
      /\ entry.app = client[c].app /\ dump = client[c].app
      /\ noted = client[c].version
      /\ client[c].op = "upgrade" => plugin = client[c].version
      /\ client[c].told /\ lock.pid = entry.pid /\ lock.ready => lock.version = client[c].version

\* The entry and the dump are those found, and so is the version file.
GatewayRestored(c) ==
  Reports(c, "rolledback") =>
    /\ entry.app = client[c].old /\ dump = client[c].old
    /\ client[c].before # NoVersion => noted = client[c].before

\* The LaunchAgent that was loaded before is.
AgentRestored(c) ==
  Reports(c, "incomplete") /\ client[c].op = "install" =>
    plist = client[c].prev /\ (client[c].loaded => agent = client[c].prev)

\* An upgrade that ends has put the previous plugin back.
PluginRestored(c) ==
  client[c].pc = "end" /\ client[c].op = "upgrade" /\ client[c].report \notin {"ok", "unrecovered"} =>
    plugin = client[c].plug

(* A command that failed and does not say that it could not go back has    *)
(* gone back: the entry, the dump and the version file, the LaunchAgent    *)
(* and the plugin are those it found, at whatever step the failure came    *)
(* and whatever the Gateway did meanwhile (rollbackFailedGatewayStart and  *)
(* installMacLaunchAgent in pm2.ts, upgrade in cli/index.ts).              *)
FailureUndone == \A c \in Clients : GatewayRestored(c) /\ AgentRestored(c) /\ PluginRestored(c)

(* A plugin that was released before the Gateway never replaces it, also   *)
(* while the Gateway restarts: the lock still tells its release.  So says  *)
(* a comment of plugin/supertask.ts (lines 66-67).                         *)
NoAutomaticDowngrade ==
  \A c \in Clients :
    Reports(c, "ok") /\ client[c].op = "ensure" => client[c].app >= client[c].old
=============================================================================
