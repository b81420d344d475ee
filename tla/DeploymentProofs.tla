--------------------------- MODULE DeploymentProofs ---------------------------
(***************************************************************************)
(* Proofs that a command which changes what PM2 runs has done what it      *)
(* reports: the release it was asked for is everywhere, or what it found   *)
(* is back.                                                                *)
(***************************************************************************)
EXTENDS MaintenanceProofs

\* From the deletion of what was found to the version file.
Swapping == {"start", "look", "ready", "version", "save", "note", "clean", "cleaning", "restore"}

Maintained == {"halt", "halting", "since", "assess", "begin", "commit", "revive", "watch", "await"}

\* The stage tells the operation.
Fits(r) ==
  /\ r.pc \in {"plugin", "replug", "end"} => r.op = "upgrade"
  /\ r.pc \in {"delete", "deleting"} => r.op \in Changes \cup {"uninstall"}
  /\ r.pc \in Swapping => r.op \in Changes
  /\ r.pc \in {"agent", "boot"} => r.op = "install"
  /\ r.pc \in {"forget", "unload"} => r.op = "uninstall"
  /\ r.pc \in Maintained => r.op \in Upkeep
  /\ r.pc \in {"revive", "watch", "await"} => r.report \in {"refused", "ok", "failed"}

\* What PM2 shall run, which is what was found once a command goes back.
Aim(r) == IF r.back THEN r.old ELSE r.app

\* PM2 runs it, and starts it again when it ends.
Listed(app) == entry.app = app /\ entry.status \in Live

\* The new Gateway is there to stay.
Moved(r) == r.pc \in {"agent", "boot"} \/ (r.pc = "leave" /\ r.report = "ok" /\ r.op \in Changes)

\* What a command has achieved, stage by stage.
Placed(r) ==
  /\ r.pc \in {"ready", "version", "save", "note"} => Listed(Aim(r))
  /\ r.pc = "note" => dump = Aim(r)
  /\ Moved(r) => Listed(r.app) /\ dump = r.app /\ noted = r.version
  /\ r.pc = "leave" /\ r.report = "rolledback" =>
       Listed(r.old) /\ dump = r.old /\ (r.before # NoVersion => noted = r.before)
  /\ r.pc = "leave" /\ r.report = "incomplete" /\ r.op = "install" =>
       plist = r.prev /\ (r.loaded => agent = r.prev)

PInv == \A c \in Clients : Fits(client[c]) /\ Placed(client[c])

DInv == MInv /\ PInv

-----------------------------------------------------------------------------
(* Steps of anybody else.                                                  *)

\* What PM2 runs goes on to be run, and what is stored stays.
Unmoved ==
  /\ entry.status \in Live => entry'.status \in Live /\ entry'.app = entry.app
  /\ UNCHANGED <<dump, noted, plist, agent>>

LEMMA UnmovedPlaced ==
  ASSUME NEW r, Placed(r), Unmoved
  PROVE  Placed(r)'
<1>1. \A app : Listed(app) => Listed(app)' BY DEF Unmoved, Listed
<1> QED BY <1>1 DEF Placed, Unmoved, Moved, Aim

\* Who is outside has promised nothing.
LEMMA OutsidePlaced ==
  ASSUME NEW r, ~Inside(r)
  PROVE  Placed(r)'
BY DEF Inside, Away, Placed, Moved

LEMMA SameUnmoved ==
  ASSUME UNCHANGED <<daemonVars, agentVars, noted>>
  PROVE  Unmoved
BY DEF Unmoved, daemonVars, agentVars

\* What a command that is outside does moves nothing.
LEMMA OutsideUnmoved ==
  ASSUME NEW d \in Clients, client[d].pc \in Away,
         Deploys(d) \/ (Maintains(d) /\ UNCHANGED deployVars)
  PROVE  UNCHANGED <<daemonVars, agentVars, noted>>
<1>1. CASE Maintains(d) /\ UNCHANGED deployVars
  <2>1. \E op \in Upkeep, keep \in BOOLEAN : Order(d, op, keep)
    BY <1>1 DEF Maintains, AssertIdleBeforeGatewayStop, NoneToStop, RefuseToStop, StopGatewayForMaintenance,
       Halted, AssertNoRunsStartedSince, LookFirst, Begin, Commit, Rollback, Revive, Watch, Await, Away
  <2> QED BY <1>1, <2>1 DEF Order, Offside, deployVars
<1>2. CASE Deploys(d)
  <2>1. \/ \E target \in Targets : Request(d, target)
        \/ NothingToDo(d) \/ UpgradePlugin(d) \/ RollbackPlugin(d)
        \/ ((TakeLock(d) \/ FindsBusy(d)) /\ UNCHANGED deployVars) \/ Leave(d) \/ End(d)
    BY <1>2 DEF Deploys, Refuse, Check, Enters, Delete, Deleted, Start, Look, WaitForGatewayReady, CheckVersion,
       SavePm2State, WriteRunningVersion, Clean, Cleaned, GoBack, Forget, WriteAgent, Bootstrap, RollbackAgent,
       RemoveAgent, Away
  <2> QED BY <2>1 DEF Request, NothingToDo, UpgradePlugin, RollbackPlugin, InstallPlugin, TakeLock, FindsBusy,
                      Leave, End, Aside, deployVars
<1> QED BY <1>1, <1>2

\* PM2 starts again what it runs.
LEMMA DaemonUnmoved ==
  ASSUME Typed, Daemon, UNCHANGED deployVars
  PROVE  Unmoved
<1>1. entry \in Entry BY DEF Typed, World
<1>2. UNCHANGED <<dump, noted, plist, agent>>
  BY DEF Daemon, Reap, Restart, GiveUp, agentVars, deployVars
<1>3. CASE Reap
  <2>1. entry.status \in Live => entry' = [entry EXCEPT !.status = "waiting", !.pid = NoPid]
    BY <1>3 DEF Reap, Live
  <2> QED BY <1>1, <1>2, <2>1 DEF Unmoved, Entry, Live
<1>4. CASE Restart
  <2>1. PICK p \in Pids : entry' = [app |-> entry.app, status |-> "online", pid |-> p]
    BY <1>4 DEF Restart, Fork
  <2> QED BY <1>2, <2>1 DEF Unmoved, Live
<1>5. CASE GiveUp BY <1>1, <1>2, <1>5 DEF GiveUp, Unmoved, Entry, Live
<1> QED BY <1>3, <1>4, <1>5 DEF Daemon

-----------------------------------------------------------------------------
(* Steps of a command.                                                     *)

\* All but the stage and the report.
Alike(r, s) ==
  /\ s.op = r.op /\ s.app = r.app /\ s.version = r.version
  /\ s.old = r.old /\ s.before = r.before /\ s.back = r.back /\ s.plug = r.plug
  /\ s.prev = r.prev /\ s.loaded = r.loaded /\ s.pid = r.pid /\ s.told = r.told

LEMMA GoShape ==
  ASSUME client \in [Clients -> Command], NEW c \in Clients, NEW pc, Go(c, pc)
  PROVE  client'[c].pc = pc /\ client'[c].report = client[c].report /\ Alike(client[c], client'[c])
BY DEF Go, Alike, Command

LEMMA FinishShape ==
  ASSUME client \in [Clients -> Command], NEW c \in Clients, NEW report, Finish(c, report)
  PROVE  client'[c].pc = "leave" /\ client'[c].report = report /\ Alike(client[c], client'[c])
BY DEF Finish, Alike, Command

LEMMA MarkShape ==
  ASSUME client \in [Clients -> Command], NEW c \in Clients, NEW pc, NEW report,
         client' = [client EXCEPT ![c].pc = pc, ![c].report = report]
  PROVE  client'[c].pc = pc /\ client'[c].report = report /\ Alike(client[c], client'[c])
BY DEF Alike, Command

\* The new Gateway is ready, or was.
Achieves(r) == r.pc \in {"ready", "version", "save", "note"} \/ Moved(r)

\* Reports that say nothing about what PM2 runs.
Silent == {"busy", "refused", "already", "failed", "unrecovered"}

LEMMA SilentPlaced ==
  ASSUME NEW r, r.pc = "leave", r.report \in Silent
  PROVE  Fits(r) /\ Placed(r)' /\ ~Achieves(r)
BY DEF Fits, Placed, Moved, Achieves, Silent, Swapping, Maintained

\* Stages at which nothing is achieved, or no longer.
Vague ==
  {"idle", "plugin", "replug", "locking", "enter", "end", "delete", "deleting", "start", "look",
   "clean", "cleaning", "restore", "forget", "unload",
   "halt", "halting", "since", "assess", "begin", "commit", "revive", "watch", "await"}

LEMMA VaguePlaced ==
  ASSUME NEW r, r.pc \in Vague
  PROVE  Placed(r)' /\ ~Achieves(r)
BY DEF Placed, Moved, Achieves, Vague

\* A step after which the command has nothing to show.
Drops(c) == Fits(client'[c]) /\ Placed(client[c])' /\ ~Achieves(client'[c])

LEMMA FailsPlaced ==
  ASSUME Typed, NEW c \in Clients, Fails(c), client[c].op \in Changes
  PROVE  Drops(c)
<1> USE DEF Drops
<1>1. client \in [Clients -> Command] BY DEF Typed
<1>2. PICK s : s = client'[c] OBVIOUS
<1>3. CASE Go(c, "clean")
  <2>1. s.pc = "clean" /\ s.op \in Changes BY <1>1, <1>2, <1>3, GoShape DEF Alike
  <2>2. Placed(s)' /\ ~Achieves(s) BY <2>1, VaguePlaced DEF Vague
  <2> QED BY <1>2, <2>1, <2>2 DEF Fits, Swapping, Maintained
<1>4. CASE Finish(c, "unrecovered")
  <2>1. s.pc = "leave" /\ s.report \in Silent BY <1>1, <1>2, <1>4, FinishShape DEF Silent
  <2> QED BY <1>2, <2>1, SilentPlaced
<1> QED BY <1>3, <1>4 DEF Fails

\* Before and after the locks nothing is promised.
LEMMA OutsideStepPlaced ==
  ASSUME Typed, NEW c \in Clients, Fits(client[c]),
         \/ \E target \in Targets : Request(c, target)
         \/ NothingToDo(c) \/ UpgradePlugin(c) \/ RollbackPlugin(c)
         \/ TakeLock(c) \/ FindsBusy(c) \/ Refuse(c) \/ Leave(c) \/ End(c)
  PROVE  Drops(c)
<1> USE DEF Drops
<1>1. client \in [Clients -> Command] /\ client[c] \in Command BY DEF Typed
<1>2. PICK s : s = client'[c] OBVIOUS
<1>3. ASSUME s.pc \in {"idle", "locking", "enter"} \/ (s.pc \in {"plugin", "replug", "end"} /\ s.op = "upgrade")
      PROVE  Drops(c)
  <2>1. Placed(s)' /\ ~Achieves(s) BY <1>3, VaguePlaced DEF Vague
  <2>2. Fits(s) BY <1>3 DEF Fits, Swapping, Maintained
  <2> QED BY <1>2, <2>1, <2>2
<1>4. ASSUME s.pc = "leave" /\ s.report \in Silent PROVE Drops(c)
  BY <1>2, <1>4, SilentPlaced
<1>5. CASE \E target \in Targets : Request(c, target)
  <2>1. PICK target \in Targets : Request(c, target) BY <1>5
  <2>2. s = NewCommand(target, IF target.op = "upgrade" THEN "plugin" ELSE "locking")
    BY <1>1, <1>2, <2>1 DEF Request
  <2>3. s.op = target.op /\ s.pc = IF target.op = "upgrade" THEN "plugin" ELSE "locking"
    BY <2>2, IdleType DEF NewCommand, Command
  <2> QED BY <1>3, <2>3
<1>6. CASE client' = [client EXCEPT ![c] = Idle] BY <1>1, <1>2, <1>3, <1>6, IdleType
<1>7. CASE UpgradePlugin(c)
  <2>1. client[c].op = "upgrade" BY <1>7 DEF UpgradePlugin, Fits
  <2>2. CASE client' = [client EXCEPT ![c].pc = "locking", ![c].paths = SavedManagementLockPaths]
    <3>1. s.pc = "locking" BY <1>1, <1>2, <2>2 DEF Command
    <3> QED BY <1>3, <3>1
  <2>3. CASE client' = [client EXCEPT ![c].pc = "replug", ![c].report = "failed"]
    <3>1. s.pc = "replug" /\ s.op = "upgrade" BY <1>1, <1>2, <2>1, <2>3, MarkShape DEF Alike
    <3> QED BY <1>3, <3>1
  <2> QED BY <1>7, <2>2, <2>3 DEF UpgradePlugin, InstallPlugin
<1>8. CASE RollbackPlugin(c)
  <2>1. client[c].op = "upgrade" BY <1>8 DEF RollbackPlugin, Fits
  <2>2. s.pc = "end" /\ s.op = "upgrade"
    BY <1>1, <1>2, <1>8, <2>1, GoShape, MarkShape DEF RollbackPlugin, InstallPlugin, Alike
  <2> QED BY <1>3, <2>2
<1>9. CASE TakeLock(c)
  <2>1. s.pc \in {"enter", "locking"} BY <1>1, <1>2, <1>9, GoShape DEF TakeLock
  <2> QED BY <1>3, <2>1
<1>10. CASE FindsBusy(c)
  <2>1. s.pc = "leave" /\ s.report = "busy" BY <1>1, <1>2, <1>10, MarkShape DEF FindsBusy
  <2> QED BY <1>4, <2>1 DEF Silent
<1>11. CASE Refuse(c)
  <2>1. s.pc = "leave" /\ s.report = "refused" BY <1>1, <1>2, <1>11, FinishShape DEF Refuse
  <2> QED BY <1>4, <2>1 DEF Silent
<1>12. CASE Leave(c)
  <2>1. CASE client[c].op # "upgrade" BY <1>6, <1>12, <2>1 DEF Leave
  <2>2. CASE client[c].op = "upgrade"
    <3>1. PICK pc \in {"replug", "end"} : client' = [client EXCEPT ![c] = [@ EXCEPT !.pc = pc]]
      BY <1>12, <2>2 DEF Leave
    <3>2. s.pc = pc /\ s.op = "upgrade" BY <1>1, <1>2, <2>2, <3>1 DEF Command
    <3> QED BY <1>3, <3>2
  <2> QED BY <2>1, <2>2
<1> QED BY <1>5, <1>6, <1>7, <1>8, <1>9, <1>10, <1>11, <1>12 DEF NothingToDo, End

\* From the look at what there is to the start of the new Gateway.
LEMMA ReplacesPlaced ==
  ASSUME Typed, NEW c \in Clients, Fits(client[c]), Placed(client[c]),
         Check(c) \/ Delete(c) \/ Deleted(c) \/ Start(c) \/ Clean(c) \/ Cleaned(c) \/ GoBack(c) \/ Forget(c)
  PROVE  Drops(c)
<1> USE DEF Drops
<1>1. client \in [Clients -> Command] /\ client[c] \in Command BY DEF Typed
<1>2. PICK s : s = client'[c] OBVIOUS
<1>3. ASSUME \/ s.pc \in {"delete", "deleting"} /\ s.op \in Changes \cup {"uninstall"}
             \/ s.pc \in {"start", "look", "clean", "cleaning", "restore"} /\ s.op \in Changes
             \/ s.pc \in {"forget", "unload"} /\ s.op = "uninstall"
      PROVE  Drops(c)
  <2>1. Placed(s)' /\ ~Achieves(s) BY <1>3, VaguePlaced DEF Vague
  <2>2. Fits(s) BY <1>3 DEF Fits, Swapping, Maintained
  <2> QED BY <1>2, <2>1, <2>2
<1>4. ASSUME NEW report \in Silent, Finish(c, report) PROVE Drops(c)
  <2>1. s.pc = "leave" /\ s.report \in Silent BY <1>1, <1>2, <1>4, FinishShape
  <2> QED BY <1>2, <2>1, SilentPlaced
<1>5. \A pc : Go(c, pc) => s.pc = pc /\ s.op = client[c].op BY <1>1, <1>2, GoShape DEF Alike
<1>6. CASE Check(c)
  <2>1. client[c].op \in Changes \cup {"uninstall"} BY <1>6 DEF Check, Enters
  <2>2. CASE Finish(c, "already") BY <1>4, <2>2 DEF Silent
  <2>3. CASE client' = [client EXCEPT
            ![c].pc = IF entry # NoEntry THEN "delete"
                      ELSE IF client[c].op = "uninstall" THEN "forget" ELSE "start",
            ![c].old = entry.app, ![c].before = noted]
    <3> DEFINE pc == IF entry # NoEntry THEN "delete"
                     ELSE IF client[c].op = "uninstall" THEN "forget" ELSE "start"
    <3>1. s.pc = pc /\ s.op = client[c].op BY <1>1, <1>2, <2>3 DEF Command
    <3> QED BY <1>3, <2>1, <3>1
  <2> QED BY <1>6, <2>2, <2>3 DEF Check
<1>7. CASE Delete(c)
  <2>1. client[c].op \in Changes \cup {"uninstall"} BY <1>7 DEF Delete, Fits
  <2>2. Go(c, "deleting") \/ Finish(c, "failed") BY <1>7 DEF Delete, Call
  <2> QED BY <1>3, <1>4, <1>5, <2>1, <2>2 DEF Silent
<1>8. CASE Deleted(c)
  <2>1. client[c].op \in Changes \cup {"uninstall"} BY <1>8 DEF Deleted, Fits
  <2>2. Go(c, IF client[c].op = "uninstall" THEN "forget" ELSE "start") BY <1>8 DEF Deleted
  <2> QED BY <1>3, <1>5, <2>1, <2>2
<1>9. CASE Start(c)
  <2>1. client[c].op \in Changes BY <1>9 DEF Start, Fits, Swapping
  <2>2. Go(c, "look") \/ Fails(c) BY <1>9 DEF Start, Call
  <2> QED BY <1>3, <1>5, <2>1, <2>2, FailsPlaced
<1>10. CASE Clean(c)
  <2>1. client[c].op \in Changes BY <1>10 DEF Clean, Fits, Swapping
  <2>2. Go(c, "cleaning") \/ Go(c, "restore") BY <1>10 DEF Clean, Call
  <2> QED BY <1>3, <1>5, <2>1, <2>2
<1>11. CASE Cleaned(c)
  <2>1. client[c].op \in Changes BY <1>11 DEF Cleaned, Fits, Swapping
  <2> QED BY <1>3, <1>5, <1>11, <2>1 DEF Cleaned
<1>12. CASE GoBack(c)
  <2>1. client[c].op \in Changes BY <1>12 DEF GoBack, Fits, Swapping
  <2>2. CASE Finish(c, "failed") BY <1>4, <2>2 DEF Silent
  <2>3. CASE client' = [client EXCEPT ![c].pc = "start", ![c].back = TRUE, ![c].pid = NoPid]
    <3>1. s.pc = "start" /\ s.op = client[c].op BY <1>1, <1>2, <2>3 DEF Command
    <3> QED BY <1>3, <2>1, <3>1
  <2> QED BY <1>12, <2>2, <2>3 DEF GoBack
<1>13. CASE Forget(c)
  <2>1. client[c].op = "uninstall" BY <1>13 DEF Forget, Fits
  <2>2. Go(c, "unload") \/ Finish(c, "failed") BY <1>13 DEF Forget, Call
  <2> QED BY <1>3, <1>4, <1>5, <2>1, <2>2 DEF Silent
<1> QED BY <1>6, <1>7, <1>8, <1>9, <1>10, <1>11, <1>12, <1>13

LEMMA AlikeAim ==
  ASSUME NEW r, NEW s, Alike(r, s)
  PROVE  Aim(s) = Aim(r)
BY DEF Alike, Aim

\* From the first look at the new Gateway to the version file.
LEMMA ConfirmsPlaced ==
  ASSUME Typed, NEW c \in Clients, Fits(client[c]), Placed(client[c]),
         Look(c) \/ WaitForGatewayReady(c) \/ CheckVersion(c) \/ SavePm2State(c) \/ WriteRunningVersion(c)
  PROVE  Fits(client'[c]) /\ Placed(client[c])'
<1>1. client \in [Clients -> Command] /\ client[c] \in Command BY DEF Typed
<1>2. PICK r : r = client[c] OBVIOUS
<1>3. PICK s : s = client'[c] OBVIOUS
<1>4. r.pc \in {"look", "ready", "version", "save", "note"} /\ r.op \in Changes
  BY <1>2 DEF Look, WaitForGatewayReady, CheckVersion, SavePm2State, WriteRunningVersion, Fits, Swapping
<1>5. Fails(c) => Fits(client'[c]) /\ Placed(client[c])' BY <1>2, <1>4, FailsPlaced DEF Drops
<1>6. ASSUME s.pc \in {"ready", "version", "save", "note"}, s.op \in Changes, Listed(Aim(s))',
             s.pc = "note" => dump' = Aim(s)
      PROVE  Fits(client'[c]) /\ Placed(client[c])'
  <2>1. Fits(s) BY <1>6 DEF Fits, Swapping, Maintained
  <2>2. Placed(s)' BY <1>6 DEF Placed, Moved, Aim
  <2> QED BY <1>3, <2>1, <2>2
<1>7. CASE Look(c)
  <2>1. CASE IsStarted(c) /\ client' = [client EXCEPT ![c].pc = "ready", ![c].pid = entry.pid]
    <3>1. /\ s.pc = "ready" /\ s.op = r.op /\ s.back = r.back /\ s.old = r.old /\ s.app = r.app
      BY <1>1, <1>2, <1>3, <2>1 DEF Command
    <3>2. Aim(s) = Target(c) BY <1>2, <3>1 DEF Aim, Target
    <3>3. entry' = entry BY <1>7 DEF Look, Aside, daemonVars
    <3>4. Listed(Aim(s))' BY <2>1, <3>2, <3>3 DEF IsStarted, Listed, Live
    <3> QED BY <1>4, <1>6, <3>1, <3>4
  <2> QED BY <1>5, <1>7, <2>1 DEF Look
<1>8. CASE WaitForGatewayReady(c)
  <2>1. CASE Go(c, "version")
    <3>1. s.pc = "version" /\ s.op = r.op /\ Aim(s) = Aim(r)
      BY <1>1, <1>2, <1>3, <2>1, GoShape, AlikeAim DEF Alike
    <3>2. Listed(Aim(r)) /\ entry' = entry
      BY <1>2, <1>8 DEF WaitForGatewayReady, Placed, Aside, daemonVars
    <3>3. Listed(Aim(s))' BY <3>1, <3>2 DEF Listed
    <3> QED BY <1>4, <1>6, <3>1, <3>3
  <2> QED BY <1>5, <1>8, <2>1 DEF WaitForGatewayReady
<1>11. CASE CheckVersion(c)
  <2>1. CASE client' = [client EXCEPT ![c].pc = "save", ![c].told = (ReadyVersion(c) # NoVersion)]
    <3>1. s.pc = "save" /\ s.op = r.op /\ s.back = r.back /\ s.old = r.old /\ s.app = r.app
      BY <1>1, <1>2, <1>3, <2>1 DEF Command
    <3>2. Listed(Aim(r)) /\ entry' = entry
      BY <1>2, <1>11 DEF CheckVersion, Placed, Aside, daemonVars
    <3>3. Listed(Aim(s))' BY <3>1, <3>2 DEF Listed, Aim
    <3> QED BY <1>4, <1>6, <3>1, <3>3
  <2> QED BY <1>5, <1>11, <2>1 DEF CheckVersion
<1>9. CASE SavePm2State(c)
  <2>1. CASE Save /\ Go(c, "note")
    <3>1. s.pc = "note" /\ s.op = r.op /\ Aim(s) = Aim(r)
      BY <1>1, <1>2, <1>3, <2>1, GoShape, AlikeAim DEF Alike
    <3>2. Listed(Aim(r)) /\ entry' = entry /\ dump' = entry.app
      BY <1>2, <1>9, <2>1 DEF SavePm2State, Placed, Save
    <3>3. Listed(Aim(s))' /\ dump' = Aim(s) BY <3>1, <3>2 DEF Listed
    <3> QED BY <1>4, <1>6, <3>1, <3>3
  <2> QED BY <1>5, <1>9, <2>1 DEF SavePm2State, Call
<1>10. CASE WriteRunningVersion(c)
  <2>1. Listed(Aim(r)) /\ dump = Aim(r) /\ UNCHANGED <<entry, dump>>
    BY <1>2, <1>10 DEF WriteRunningVersion, Placed, daemonVars
  <2>2. CASE noted' = Noted(c) /\ r.back /\ Finish(c, "rolledback")
    <3>1. /\ s.pc = "leave" /\ s.report = "rolledback"
          /\ s.old = r.old /\ s.before = r.before
      BY <1>1, <1>2, <1>3, <2>2, FinishShape DEF Alike
    <3>2. Aim(r) = s.old /\ (s.before # NoVersion => noted' = s.before)
      BY <1>2, <2>2, <3>1 DEF Aim, Noted
    <3>3. Listed(s.old)' /\ dump' = s.old BY <2>1, <3>2 DEF Listed
    <3>4. Placed(s)' BY <3>1, <3>2, <3>3 DEF Placed, Moved
    <3>5. Fits(s) BY <3>1 DEF Fits, Swapping, Maintained
    <3> QED BY <1>3, <3>4, <3>5
  <2>3. CASE noted' = Noted(c) /\ ~r.back /\ ((Go(c, "agent") /\ r.op = "install") \/ Finish(c, "ok"))
    <3>1. /\ \/ s.pc = "agent" /\ s.op = "install"
             \/ s.pc = "leave" /\ s.report = "ok"
          /\ s.app = r.app /\ s.version = r.version
      BY <1>1, <1>2, <1>3, <2>3, GoShape, FinishShape DEF Alike
    <3>2. Aim(r) = s.app /\ noted' = s.version BY <1>2, <2>3, <3>1 DEF Aim, Noted
    <3>3. Listed(s.app)' /\ dump' = s.app BY <2>1, <3>2 DEF Listed
    <3>4. Placed(s)' BY <3>1, <3>2, <3>3 DEF Placed, Moved
    <3>5. Fits(s) BY <3>1 DEF Fits, Swapping, Maintained
    <3> QED BY <1>3, <3>4, <3>5
  <2> QED BY <1>2, <1>5, <1>10, <2>2, <2>3 DEF WriteRunningVersion
<1> QED BY <1>7, <1>8, <1>9, <1>10, <1>11

\* The LaunchAgent changes; PM2 and the version file do not.
LEMMA AgentPlaced ==
  ASSUME Typed, NEW c \in Clients, Fits(client[c]), Placed(client[c]), AgentSteps(c)
  PROVE  Fits(client'[c]) /\ Placed(client[c])'
<1>1. client \in [Clients -> Command] /\ client[c] \in Command BY DEF Typed
<1>2. PICK r : r = client[c] OBVIOUS
<1>3. PICK s : s = client'[c] OBVIOUS
<1>4. UNCHANGED <<entry, dump, noted>>
  BY DEF AgentSteps, WriteAgent, Bootstrap, RollbackAgent, RemoveAgent, Unchanging, daemonVars, deployVars
<1>5. ASSUME NEW report \in Silent, Finish(c, report) PROVE Fits(client'[c]) /\ Placed(client[c])'
  <2>1. s.pc = "leave" /\ s.report \in Silent BY <1>1, <1>3, <1>5, FinishShape
  <2> QED BY <1>3, <2>1, SilentPlaced
<1>6. ASSUME Moved(r), s.app = r.app, s.version = r.version,
             (s.pc = "boot" /\ s.op = "install") \/ (s.pc = "leave" /\ s.report = "ok")
      PROVE  Fits(client'[c]) /\ Placed(client[c])'
  <2>1. Listed(s.app)' /\ dump' = s.app /\ noted' = s.version BY <1>2, <1>4, <1>6 DEF Placed, Listed
  <2>2. Placed(s)' BY <1>6, <2>1 DEF Placed, Moved
  <2>3. Fits(s) BY <1>6 DEF Fits, Swapping, Maintained
  <2> QED BY <1>3, <2>2, <2>3
<1>7. CASE WriteAgent(c)
  <2>1. r.pc = "agent" /\ r.op = "install" BY <1>2, <1>7 DEF WriteAgent, Fits
  <2>2. s.pc = "boot" /\ s.op = "install" /\ s.app = r.app /\ s.version = r.version
    BY <1>1, <1>2, <1>3, <1>7, <2>1 DEF WriteAgent, Command
  <2> QED BY <1>6, <2>1, <2>2 DEF Moved
<1>8. CASE Bootstrap(c)
  <2>1. r.pc = "boot" BY <1>2, <1>8 DEF Bootstrap
  <2>2. s.pc = "leave" /\ s.report = "ok" /\ s.app = r.app /\ s.version = r.version
    BY <1>1, <1>2, <1>3, <1>8, FinishShape DEF Bootstrap, Alike
  <2> QED BY <1>6, <2>1, <2>2 DEF Moved
<1>9. CASE RollbackAgent(c)
  <2>1. CASE Finish(c, "incomplete")
    <3>1. s.pc = "leave" /\ s.report = "incomplete" /\ s.prev = r.prev /\ s.loaded = r.loaded
      BY <1>1, <1>2, <1>3, <2>1, FinishShape DEF Alike
    <3>2. ~Finish(c, "unrecovered") BY <1>1, <1>3, <3>1, FinishShape
    <3>3. plist' = s.prev /\ (s.loaded => agent' = s.prev)
      BY <1>2, <1>9, <3>1, <3>2 DEF RollbackAgent, PreviousAgent
    <3>4. Placed(s)' BY <3>1, <3>3 DEF Placed, Moved
    <3>5. Fits(s) BY <3>1 DEF Fits, Swapping, Maintained
    <3> QED BY <1>3, <3>4, <3>5
  <2> QED BY <1>5, <1>9, <2>1 DEF RollbackAgent, Silent
<1>10. CASE RemoveAgent(c)
  <2>1. r.op = "uninstall" BY <1>2, <1>10 DEF RemoveAgent, Fits
  <2>2. s.pc = "leave" /\ s.report \in {"ok", "incomplete"} /\ s.op = "uninstall"
    BY <1>1, <1>2, <1>3, <1>10, <2>1, FinishShape DEF RemoveAgent, Alike
  <2>3. Placed(s)' BY <2>2 DEF Placed, Moved, Changes
  <2>4. Fits(s) BY <2>2 DEF Fits, Swapping, Maintained
  <2> QED BY <1>3, <2>3, <2>4
<1> QED BY <1>7, <1>8, <1>9, <1>10 DEF AgentSteps

\* A command that maintains the database reports nothing of the kind.
LEMMA UpkeepPlaced ==
  ASSUME Typed, NEW c \in Clients, Fits(client[c]), Maintains(c)
  PROVE  Drops(c) /\ client'[c].op \in Upkeep
<1> USE DEF Drops
<1>1. client \in [Clients -> Command] /\ client[c] \in Command BY DEF Typed
<1>2. PICK r : r = client[c] OBVIOUS
<1>3. PICK s : s = client'[c] OBVIOUS
<1>4. ASSUME s.op \in Upkeep, s.pc \in Maintained \cup {"locking"},
             s.pc \in {"revive", "watch", "await"} => s.report \in {"refused", "ok", "failed"}
      PROVE  Drops(c) /\ client'[c].op \in Upkeep
  <2>1. Placed(s)' /\ ~Achieves(s) BY <1>4, VaguePlaced DEF Vague, Maintained
  <2>2. Fits(s) BY <1>4 DEF Fits, Swapping, Maintained
  <2> QED BY <1>3, <1>4, <2>1, <2>2
<1>5. CASE \E op \in Upkeep, keep \in BOOLEAN : Order(c, op, keep)
  <2>1. PICK op \in Upkeep, keep \in BOOLEAN : Order(c, op, keep) BY <1>5
  <2>2. s = [Idle EXCEPT !.op = op, !.keep = keep, !.pc = "locking", !.paths = SavedManagementLockPaths]
    BY <1>1, <1>3, <2>1 DEF Order
  <2>3. s.pc = "locking" /\ s.op \in Upkeep BY <2>2, IdleType DEF Command
  <2> QED BY <1>4, <2>3
<1>6. ASSUME ~ \E op \in Upkeep, keep \in BOOLEAN : Order(c, op, keep)
      PROVE  Drops(c) /\ client'[c].op \in Upkeep
  <2>1. r.op \in Upkeep
    BY <1>2, <1>6 DEF Fits, Maintained, Maintains, AssertIdleBeforeGatewayStop, NoneToStop, RefuseToStop,
       StopGatewayForMaintenance, Halted, AssertNoRunsStartedSince, LookFirst, Begin, Commit, Rollback,
       Revive, Watch, Await
  <2>2. ASSUME NEW pc \in Maintained, Go(c, pc),
               pc \in {"revive", "watch", "await"} => r.report \in {"refused", "ok", "failed"}
        PROVE  Drops(c) /\ client'[c].op \in Upkeep
    <3>1. s.pc = pc /\ s.op = r.op /\ s.report = r.report BY <1>1, <1>2, <1>3, <2>2, GoShape DEF Alike
    <3> QED BY <1>4, <2>1, <2>2, <3>1
  <2>3. ASSUME NEW report \in {"refused", "ok", "failed", "unrecovered"}, Finish(c, report)
        PROVE  Drops(c) /\ client'[c].op \in Upkeep
    <3>1. s.pc = "leave" /\ s.op \in Upkeep /\ s.report = report
      BY <1>1, <1>2, <1>3, <2>1, <2>3, FinishShape DEF Alike
    <3>2. s.op \notin Changes BY <3>1 DEF Upkeep, Changes
    <3>3. Placed(s)' BY <3>1, <3>2 DEF Placed, Moved
    <3>4. Fits(s) /\ ~Achieves(s) BY <3>1, <3>2 DEF Fits, Achieves, Moved, Swapping, Maintained
    <3> QED BY <1>3, <3>1, <3>3, <3>4
  <2>4. ASSUME NEW report \in {"refused", "ok", "failed"}, Back(c, report) \/ Undo(c, report)
        PROVE  Drops(c) /\ client'[c].op \in Upkeep
    <3>1. CASE Finish(c, report) BY <2>3, <3>1
    <3>2. CASE client' = [client EXCEPT ![c].pc = "revive", ![c].report = report]
      <4>1. s = [r EXCEPT !.pc = "revive", !.report = report] BY <1>1, <1>2, <1>3, <3>2
      <4>2. s.pc = "revive" /\ s.report = report /\ s.op \in Upkeep BY <1>1, <1>2, <2>1, <4>1 DEF Command
      <4> QED BY <1>4, <2>4, <4>2 DEF Maintained
    <3> QED BY <2>4, <3>1, <3>2 DEF Back, Undo
  <2>5. CASE AssertIdleBeforeGatewayStop(c)
    <3>1. CASE client' = [client EXCEPT ![c].pc = "halt", ![c].baseline = last]
      <4>1. s.pc = "halt" /\ s.op \in Upkeep BY <1>1, <1>2, <1>3, <2>1, <3>1 DEF Command
      <4> QED BY <1>4, <4>1 DEF Maintained
    <3> QED BY <2>3, <2>5, <3>1 DEF AssertIdleBeforeGatewayStop
  <2>6. CASE NoneToStop(c) BY <2>2, <2>6 DEF NoneToStop, Maintained
  <2>7. CASE RefuseToStop(c) BY <2>3, <2>7 DEF RefuseToStop
  <2>8. CASE StopGatewayForMaintenance(c)
    <3>1. CASE client' = [client EXCEPT ![c].pc = "halting", ![c].was = TRUE]
      <4>1. s.pc = "halting" /\ s.op \in Upkeep BY <1>1, <1>2, <1>3, <2>1, <3>1 DEF Command
      <4> QED BY <1>4, <4>1 DEF Maintained
    <3>2. CASE client' = [client EXCEPT ![c].pc = "revive", ![c].was = TRUE, ![c].report = "refused"]
      <4>1. s.pc = "revive" /\ s.op \in Upkeep /\ s.report = "refused"
        BY <1>1, <1>2, <1>3, <2>1, <3>2 DEF Command
      <4> QED BY <1>4, <4>1 DEF Maintained
    <3> QED BY <2>8, <3>1, <3>2 DEF StopGatewayForMaintenance, Call
  <2>9. CASE Halted(c) BY <2>2, <2>9 DEF Halted, Maintained
  <2>10. CASE AssertNoRunsStartedSince(c)
    <3>1. PICK pc \in {"assess", "begin"} : Back(c, "refused") \/ Go(c, pc)
      BY <2>10 DEF AssertNoRunsStartedSince
    <3> QED BY <2>2, <2>4, <3>1 DEF Maintained
  <2>11. CASE LookFirst(c) BY <2>2, <2>4, <2>11 DEF LookFirst, Maintained
  <2>12. CASE Begin(c) BY <2>2, <2>4, <2>12 DEF Begin, CheckAndSave, Maintained
  <2>13. CASE Commit(c) BY <2>4, <2>13 DEF Commit
  <2>14. CASE Rollback(c) BY <2>4, <2>14 DEF Rollback
  <2>15. CASE Revive(c)
    <3>1. r.report \in {"refused", "ok", "failed"} BY <1>2, <2>15 DEF Revive, Fits
    <3>2. Go(c, "watch") \/ Finish(c, "unrecovered") BY <2>15 DEF Revive, Call
    <3> QED BY <2>2, <2>3, <3>1, <3>2 DEF Maintained
  <2>16. CASE Watch(c)
    <3>1. r.report \in {"refused", "ok", "failed"} BY <1>2, <2>16 DEF Watch, Fits
    <3>2. CASE client' = [client EXCEPT ![c].pc = "await", ![c].pid = entry.pid]
      <4>1. s.pc = "await" /\ s.op = r.op /\ s.report = r.report BY <1>1, <1>2, <1>3, <3>2 DEF Command
      <4> QED BY <1>4, <2>1, <3>1, <4>1 DEF Maintained
    <3> QED BY <2>3, <2>16, <3>2 DEF Watch
  <2>17. CASE Await(c)
    <3>1. client[c].report \in {"refused", "ok", "failed"} BY <2>17 DEF Await, Fits
    <3>2. PICK report \in {client[c].report, "unrecovered"} : Finish(c, report) BY <2>17 DEF Await
    <3> QED BY <2>3, <3>1, <3>2
  <2> QED BY <1>6, <2>5, <2>6, <2>7, <2>8, <2>9, <2>10, <2>11, <2>12, <2>13, <2>14, <2>15, <2>16, <2>17
          DEF Maintains
<1> QED BY <1>5, <1>6

LEMMA DeploysPlaced ==
  ASSUME Typed, NEW c \in Clients, Fits(client[c]), Placed(client[c]), Deploys(c)
  PROVE  Fits(client'[c]) /\ Placed(client[c])'
<1>1. CASE \/ \E target \in Targets : Request(c, target)
           \/ NothingToDo(c) \/ UpgradePlugin(c) \/ RollbackPlugin(c)
           \/ TakeLock(c) \/ FindsBusy(c) \/ Refuse(c) \/ Leave(c) \/ End(c)
  BY <1>1, OutsideStepPlaced DEF Drops
<1>2. CASE \/ Check(c) \/ Delete(c) \/ Deleted(c) \/ Start(c)
           \/ Clean(c) \/ Cleaned(c) \/ GoBack(c) \/ Forget(c)
  BY <1>2, ReplacesPlaced DEF Drops
<1>3. CASE Look(c) \/ WaitForGatewayReady(c) \/ CheckVersion(c) \/ SavePm2State(c) \/ WriteRunningVersion(c)
  BY <1>3, ConfirmsPlaced
<1>4. CASE AgentSteps(c) BY <1>4, AgentPlaced
<1> QED BY <1>1, <1>2, <1>3, <1>4 DEF Deploys, AgentSteps

-----------------------------------------------------------------------------
(* The invariant.                                                          *)

\* The world of a command that is not at work itself.
LEMMA StillPlaced ==
  ASSUME NEW c \in Clients, Fits(client[c]), Placed(client[c]), client'[c] = client[c],
         Inside(client[c]) => Unmoved
  PROVE  Fits(client'[c]) /\ Placed(client[c])'
<1>1. PICK r : r = client[c] OBVIOUS
<1>2. Placed(r)' BY <1>1, UnmovedPlaced, OutsidePlaced
<1> QED BY <1>1, <1>2

\* One command moves nothing of another that is inside.
LEMMA CommandPlaced ==
  ASSUME DInv, NEW d \in Clients,
         (Deploys(d) /\ UNCHANGED dbVars) \/ (Maintains(d) /\ UNCHANGED deployVars)
  PROVE  PInv'
<1>1. Typed /\ Held /\ PInv BY DEF DInv, MInv
<1>2. Fits(client'[d]) /\ Placed(client[d])' BY <1>1, DeploysPlaced, UpkeepPlaced DEF PInv, Drops
<1>3. ASSUME NEW c \in Clients \ {d} PROVE Fits(client'[c]) /\ Placed(client[c])'
  <2>1. client'[c] = client[c] BY <1>1, OthersStay
  <2>2. ASSUME Inside(client[c]) PROVE Unmoved
    <3>1. ~Inside(client[d]) BY <1>1, <2>2, InsideAlone
    <3>2. client[d].pc \in Away BY <3>1 DEF Inside
    <3> QED BY <3>2, OutsideUnmoved, SameUnmoved
  <2> QED BY <1>1, <2>1, <2>2, StillPlaced DEF PInv
<1> QED BY <1>2, <1>3 DEF PInv

LEMMA ListingPlaced ==
  ASSUME DInv, Listing
  PROVE  PInv'
<1>1. Typed /\ Held /\ PInv BY DEF DInv, MInv
<1>2. client' = client BY DEF Listing, Daemon, Supervisor, Supervise, Resurrect
<1>3. ASSUME NEW c \in Clients, Inside(client[c]) PROVE Unmoved
  <2>1. sup = "idle" BY <1>1, <1>3, InsideAlone
  <2>2. CASE Daemon BY <1>1, <2>2, DaemonUnmoved DEF Listing
  <2>3. CASE Supervise BY <2>3 DEF Listing, Supervise, Unmoved, daemonVars, deployVars
  <2> QED BY <2>1, <2>2, <2>3 DEF Listing, Supervisor, Resurrect
<1> QED BY <1>1, <1>2, <1>3, StillPlaced DEF PInv

\* What changes neither PM2 nor its files.
LEMMA ElsewherePlaced ==
  ASSUME PInv, UNCHANGED <<daemonVars, agentVars, noted, client>>
  PROVE  PInv'
BY SameUnmoved, StillPlaced DEF PInv

LEMMA WorkingPlaced ==
  ASSUME DInv, Working
  PROVE  PInv'
<1>1. UNCHANGED <<agentVars, client, noted>>
  BY DEF Working, GatewayAndOthers, Processes, Database, Offside, deployVars
<1>2. UNCHANGED daemonVars
  BY DEF Working, GatewayAndOthers, Processes, Runs, Strikes, Database, Offside
<1> QED BY <1>1, <1>2, ElsewherePlaced DEF DInv

\* A command that is killed has said nothing.
LEMMA KillPlaced ==
  ASSUME DInv, NEW d \in Clients, Kill(d)
  PROVE  PInv'
<1>1. client \in [Clients -> Command] BY DEF DInv, MInv, Typed
<1>2. client' = [client EXCEPT ![d] = Idle] /\ UNCHANGED <<daemonVars, agentVars, noted>>
  BY DEF Kill, Killed, deployVars
<1>3. Fits(client'[d]) /\ Placed(client[d])'
  <2>1. client'[d].pc = "idle" BY <1>1, <1>2, IdleType
  <2>2. PICK s : s = client'[d] OBVIOUS
  <2>3. Placed(s)' BY <2>1, <2>2, VaguePlaced DEF Vague
  <2> QED BY <2>1, <2>2, <2>3 DEF Fits, Swapping, Maintained
<1>4. \A c \in Clients \ {d} : client'[c] = client[c] BY <1>1, <1>2
<1>5. \A c \in Clients \ {d} : Fits(client'[c]) /\ Placed(client[c])'
  BY <1>2, <1>4, SameUnmoved, StillPlaced DEF DInv, PInv
<1> QED BY <1>3, <1>5 DEF PInv

LEMMA AtRestPlaced ==
  ASSUME \A c \in Clients : client[c].pc = "idle"
  PROVE  PInv
BY DEF PInv, Fits, Placed, Moved, Swapping, Maintained

LEMMA RebootPlaced ==
  ASSUME PowerFails
  PROVE  PInv'
<1>1. \A c \in Clients : client'[c].pc = "idle" BY IdleType DEF PowerFails, Reboot
<1> QED BY <1>1 DEF PInv, Fits, Placed, Moved, Swapping, Maintained

LEMMA NextPlaced == DInv /\ [Next]_vars => DInv'
<1> SUFFICES ASSUME DInv, [Next]_vars PROVE DInv'
  OBVIOUS
<1>1. MInv' BY NextHeld DEF DInv
<1>2. CASE UNCHANGED vars
  <2>1. UNCHANGED <<daemonVars, agentVars, noted, client>> BY <1>2 DEF vars, pm2Vars, deployVars
  <2> QED BY <1>1, <2>1, ElsewherePlaced DEF DInv
<1>3. CASE Deploying \/ Maintaining BY <1>1, <1>3, CommandPlaced DEF Deploying, Maintaining, DInv
<1>4. CASE Next
  <2>1. PInv' BY <1>1, <1>3, <1>4, ListingPlaced, WorkingPlaced, KillPlaced, RebootPlaced DEF Next, DInv
  <2> QED BY <1>1, <2>1 DEF DInv
<1> QED BY <1>2, <1>4

LEMMA InitPlaced == Init => DInv
<1> SUFFICES ASSUME Init PROVE DInv
  OBVIOUS
<1>1. \A c \in Clients : client[c].pc = "idle" BY IdleType DEF Init, NotInstalled, Pm2Init, Installed
<1> QED BY <1>1, InitHeld, AtRestPlaced DEF DInv

(* Every reachable state satisfies the invariant: what a command has       *)
(* achieved at each stage, whatever PM2, the supervisor, Gateways and      *)
(* other commands do meanwhile (installUnlocked, upgradeUnlocked,          *)
(* ensureGatewayUnlocked and rollbackFailedGatewayStart in pm2.ts).        *)
THEOREM DeploymentInvariance == Spec => []DInv
  BY InitPlaced, NextPlaced, PTL DEF Spec

-----------------------------------------------------------------------------
(* The release that serves.                                                *)

Gateways == {"boot", "starting", "up", "stopping", "leaving"}

\* The row is of a Gateway that is or was ready.
Tells == lock.ready \/ lock.version # NoVersion

\* What runs under pid q, or did last, is of release v, and the row says so.
Speaks(q, v) ==
  /\ lock.pid = q /\ Tells => lock.version = v
  /\ q \in Pids /\ proc[q] \in Gateways => image[q] = v

Starts(q) == q \in Pids /\ proc[q] = "gone" /\ proc'[q] = "boot"

\* A Gateway is not given the pid of one whose release the row still tells,
\* nor of one that a command asks about: the machine uses pids again only late.
PidsFresh ==
  \A p \in Pids : Starts(p) =>
    /\ ~(Tells /\ lock.pid = p)
    /\ \A c \in Clients : client[c].pc \in {"ready", "version"} => client[c].pid # p

\* Whoever is ready has a pid.
Named == Tells => lock.pid # NoPid

\* What becomes of processes and the row, but for a reboot.
LockMoves ==
  \/ UNCHANGED lockVars
  \/ \E p \in Pids :
        \/ GatewayStep(p) \/ Die(p)
        \/ \E phase \in {"other", "elsewhere", "boot"}, v \in Release : Spawn(p, phase, v)
  \/ Age \/ ForgetLock

LEMMA SpeaksOn ==
  ASSUME LockTypeOK, Named, NEW q, NEW v, Speaks(q, v), LockMoves, ~Starts(q)
  PROVE  Speaks(q, v)' /\ Named'
<1> USE DEF LockTypeOK, Named, Tells, Speaks, Gateways
<1>0. NoPid \notin Pids BY NoPidIsNone
<1>1. CASE UNCHANGED lockVars BY <1>1 DEF lockVars
<1>2. CASE Age \/ ForgetLock BY <1>2 DEF Age, ForgetLock, NoRow, Row
<1>3. ASSUME NEW p \in Pids, Die(p) PROVE Speaks(q, v)' /\ Named' BY <1>3 DEF Die, Become
<1>4. ASSUME NEW p \in Pids, NEW phase \in {"other", "elsewhere", "boot"}, NEW w \in Release, Spawn(p, phase, w)
      PROVE  Speaks(q, v)' /\ Named'
  BY <1>4 DEF Spawn, Become, Starts
<1>5. ASSUME NEW p \in Pids, GatewayStep(p) PROVE Speaks(q, v)' /\ Named'
  <2>1. CASE AcquireLock(p) BY <1>0, <2>1 DEF AcquireLock, Become
  <2>2. CASE ExitWithoutLock(p) BY <1>3, <2>2 DEF ExitWithoutLock
  <2>3. CASE UpdateLockHeartbeat(p) BY <2>3 DEF UpdateLockHeartbeat, Row
  <2>4. CASE MarkGatewayReady(p) BY <1>0, <2>4 DEF MarkGatewayReady, Become, Row
  <2>5. CASE BeginShutdown(p) BY <2>5 DEF BeginShutdown, Become, Row
  <2>6. CASE ReleaseLock(p) BY <2>6 DEF ReleaseLock, Become, NoRow
  <2> QED BY <1>5, <2>1, <2>2, <2>3, <2>4, <2>5, <2>6 DEF GatewayStep
<1> QED BY <1>1, <1>2, <1>3, <1>4, <1>5 DEF LockMoves

\* A step keeps the process of the entry, takes it away, or starts another.
Carries ==
  \/ entry'.pid = entry.pid /\ entry'.app = entry.app /\ LockMoves /\ ~Starts(entry.pid)
  \/ entry'.pid = NoPid /\ UNCHANGED lockVars
  \/ \E app \in Release : Fork(app)

LEMMA CarriesMoves ==
  ASSUME Carries
  PROVE  LockMoves
BY DEF Carries, LockMoves, Fork

Told == Named /\ Speaks(entry.pid, entry.app)

LEMMA CarriesTold ==
  ASSUME Typed, Told, PidsFresh, Carries
  PROVE  Told'
<1>0. NoPid \notin Pids BY NoPidIsNone
<1>1. LockTypeOK BY DEF Typed, World, LockInv
<1>2. CASE entry'.pid = entry.pid /\ entry'.app = entry.app /\ LockMoves /\ ~Starts(entry.pid)
  <2>1. PICK q, v : q = entry.pid /\ v = entry.app OBVIOUS
  <2>2. Speaks(q, v)' /\ Named' BY <1>1, <1>2, <2>1, SpeaksOn DEF Told
  <2> QED BY <1>2, <2>1, <2>2 DEF Told
<1>3. CASE entry'.pid = NoPid /\ UNCHANGED lockVars BY <1>0, <1>3 DEF Told, Named, Tells, Speaks, lockVars
<1>4. ASSUME NEW app \in Release, Fork(app) PROVE Told'
  <2>1. PICK p \in Pids : Spawn(p, "boot", app) /\ entry' = [app |-> app, status |-> "online", pid |-> p]
    BY <1>4 DEF Fork
  <2>2. Starts(p) /\ image'[p] = app /\ lock' = lock BY <1>1, <2>1 DEF Spawn, Become, Starts, LockTypeOK
  <2>3. ~(Tells /\ lock.pid = p) BY <2>2 DEF PidsFresh
  <2> QED BY <2>1, <2>2, <2>3 DEF Told, Named, Tells, Speaks
<1> QED BY <1>2, <1>3, <1>4 DEF Carries

LEMMA StillCarries ==
  ASSUME UNCHANGED <<lockVars, daemonVars>>
  PROVE  Carries
BY DEF Carries, LockMoves, Starts, lockVars, daemonVars

LEMMA TerminateCarries ==
  ASSUME entry \in Entry, NEW status, Terminate(status)
  PROVE  Carries
<1>1. CASE entry.pid # NoPid
  <2>1. entry'.pid = entry.pid /\ entry'.app = entry.app /\ UNCHANGED lockVars
    BY <1>1 DEF Terminate, Entry
  <2> QED BY <2>1 DEF Carries, LockMoves, Starts, lockVars
<1>2. CASE entry.pid = NoPid
  <2>1. entry'.pid = NoPid /\ UNCHANGED lockVars BY <1>2 DEF Terminate, Entry, NoEntry
  <2> QED BY <2>1 DEF Carries
<1> QED BY <1>1, <1>2

\* The process of the entry stays the same one.
LEMMA StatusCarries ==
  ASSUME entry \in Entry, NEW status, entry' = [entry EXCEPT !.status = status], UNCHANGED lockVars
  PROVE  Carries
<1>1. entry'.pid = entry.pid /\ entry'.app = entry.app BY DEF Entry
<1> QED BY <1>1 DEF Carries, LockMoves, Starts, lockVars

LEMMA DeployCarries ==
  ASSUME Typed, NEW c \in Clients, Deploys(c)
  PROVE  Carries
<1>1. entry \in Entry /\ client[c] \in Command BY DEF Typed, World
<1>2. Target(c) \in Release /\ entry.app \in Release BY <1>1 DEF Target, Command, Entry
<1>3. CASE Delete(c) \/ Clean(c)
  <2>1. Terminate("deleting") \/ UNCHANGED <<lockVars, daemonVars>> BY <1>3 DEF Delete, Clean, Call
  <2> QED BY <1>1, <2>1, TerminateCarries, StillCarries
<1>4. CASE Start(c)
  <2>1. StartScript(Target(c)) \/ UNCHANGED <<lockVars, daemonVars>> BY <1>4 DEF Start, Call
  <2> QED BY <1>2, <2>1, StillCarries DEF StartScript, Carries
<1>5. CASE SavePm2State(c) \/ Forget(c)
  <2>1. UNCHANGED <<lockVars, entry>> BY <1>5 DEF SavePm2State, Forget, Call, Save, daemonVars
  <2> QED BY <2>1 DEF Carries, LockMoves, Starts, lockVars
<1>6. CASE \/ \E target \in Targets : Request(c, target)
           \/ NothingToDo(c) \/ UpgradePlugin(c) \/ RollbackPlugin(c)
           \/ TakeLock(c) \/ FindsBusy(c) \/ Refuse(c) \/ Check(c) \/ Deleted(c)
           \/ Look(c) \/ WaitForGatewayReady(c) \/ CheckVersion(c) \/ WriteRunningVersion(c)
           \/ Cleaned(c) \/ GoBack(c) \/ AgentSteps(c) \/ Leave(c) \/ End(c)
  <2>1. UNCHANGED <<lockVars, daemonVars>>
    BY <1>6 DEF Request, NothingToDo, UpgradePlugin, RollbackPlugin, InstallPlugin, TakeLock, FindsBusy, Refuse,
       Check, Deleted, Look, WaitForGatewayReady, CheckVersion, WriteRunningVersion, Cleaned, GoBack, AgentSteps,
       WriteAgent, Bootstrap, RollbackAgent, RemoveAgent, Unchanging, Leave, End, Aside
  <2> QED BY <2>1, StillCarries
<1> QED BY <1>3, <1>4, <1>5, <1>6 DEF Deploys, AgentSteps

LEMMA UpkeepCarries ==
  ASSUME Typed, NEW c \in Clients, Maintains(c)
  PROVE  Carries
<1>1. entry \in Entry BY DEF Typed, World
<1>2. CASE StopGatewayForMaintenance(c)
  <2>1. Terminate("stopping") \/ UNCHANGED <<lockVars, daemonVars>>
    BY <1>2 DEF StopGatewayForMaintenance, Call
  <2> QED BY <1>1, <2>1, TerminateCarries, StillCarries
<1>3. CASE Revive(c)
  <2>1. StartName \/ UNCHANGED <<lockVars, daemonVars>> BY <1>3 DEF Revive, Call
  <2>2. CASE StartName
    <3>1. entry.app \in Release BY <1>1 DEF Entry
    <3> QED BY <1>1, <2>2, <3>1, StatusCarries DEF StartName, Carries
  <2> QED BY <2>1, <2>2, StillCarries
<1>4. CASE Commit(c)
  <2>1. UNCHANGED daemonVars /\ (ForgetLock \/ UNCHANGED lockVars) BY <1>4 DEF Commit
  <2> QED BY <2>1 DEF Carries, LockMoves, ForgetLock, Starts, lockVars, daemonVars
<1>5. CASE UNCHANGED <<lockVars, daemonVars>> BY <1>5, StillCarries
<1> QED
  BY <1>2, <1>3, <1>4, <1>5
  DEF Maintains, Order, AssertIdleBeforeGatewayStop, NoneToStop, RefuseToStop, Halted,
      AssertNoRunsStartedSince, LookFirst, Begin, Rollback, Watch, Await, Offside

LEMMA ListingCarries ==
  ASSUME Typed, Listing
  PROVE  Carries
<1>1. entry \in Entry /\ dump \in Release BY DEF Typed, World
<1>2. entry.app \in Release BY <1>1 DEF Entry
<1>3. CASE Reap
  <2>1. entry'.pid = NoPid BY <1>1, <1>3 DEF Reap, NoEntry, Entry
  <2> QED BY <1>3, <2>1 DEF Reap, Carries
<1>4. CASE Restart BY <1>2, <1>4 DEF Restart, Carries
<1>5. CASE GiveUp BY <1>1, <1>5, StatusCarries DEF GiveUp
<1>6. CASE Supervise BY <1>6, StillCarries DEF Supervise
<1>7. CASE Resurrect BY <1>1, <1>7, StillCarries DEF Resurrect, Carries
<1> QED BY <1>3, <1>4, <1>5, <1>6, <1>7 DEF Listing, Daemon, Supervisor

\* Whoever starts on its own is not the process of the entry.
LEMMA WorkingCarries ==
  ASSUME Typed, Working
  PROVE  Carries
<1>1. LockTypeOK BY DEF Typed, World, LockInv
<1>2. ASSUME UNCHANGED entry, LockMoves, ~Starts(entry.pid) PROVE Carries BY <1>2 DEF Carries
<1>3. ASSUME NEW p \in Pids, Die(p), UNCHANGED entry PROVE Carries
  <2>1. LockMoves /\ ~Starts(entry.pid) BY <1>1, <1>3 DEF LockMoves, Die, Become, Starts, LockTypeOK
  <2> QED BY <1>2, <1>3, <2>1
<1>4. ASSUME NEW p \in Pids, GatewayStep(p), UNCHANGED entry PROVE Carries
  <2>1. ~Starts(entry.pid)
    BY <1>1, <1>4 DEF GatewayStep, AcquireLock, ExitWithoutLock, UpdateLockHeartbeat, MarkGatewayReady,
       BeginShutdown, ReleaseLock, Die, Become, Starts, LockTypeOK
  <2> QED BY <1>2, <1>4, <2>1 DEF LockMoves
<1>5. ASSUME NEW p \in Pids, p # entry.pid, NEW phase \in {"other", "elsewhere", "boot"}, NEW v \in Release,
             Spawn(p, phase, v), UNCHANGED entry
      PROVE  Carries
  <2>1. ~Starts(entry.pid) BY <1>1, <1>5 DEF Spawn, Become, Starts, LockTypeOK
  <2>2. LockMoves BY <1>5 DEF LockMoves
  <2> QED BY <1>2, <1>5, <2>1, <2>2
<1>6. CASE Database
  <2>1. UNCHANGED <<lockVars, daemonVars>> BY <1>6 DEF Database, Offside
  <2> QED BY <2>1, StillCarries
<1>7. CASE Processes
  <2>1. UNCHANGED entry BY <1>7 DEF Processes, Runs, Strikes, daemonVars
  <2>2. ASSUME NEW p \in Pids, Runs(p) PROVE Carries BY <1>3, <1>4, <2>1, <2>2 DEF Runs, Heed, GatewayStep
  <2>3. ASSUME NEW p \in Pids, Strikes(p) PROVE Carries
    <3>1. Versions \subseteq Release /\ NoVersion \in Release BY DEF Release
    <3> QED BY <1>3, <1>4, <1>5, <2>1, <2>3, <3>1 DEF Strikes, GatewayStep
  <2>4. ASSUME Age PROVE Carries
    <3>1. LockMoves /\ ~Starts(entry.pid) BY <2>4 DEF LockMoves, Age, Starts
    <3> QED BY <1>2, <2>1, <3>1
  <2> QED BY <1>3, <1>7, <2>1, <2>2, <2>3, <2>4 DEF Processes
<1> QED BY <1>6, <1>7 DEF Working, GatewayAndOthers

-----------------------------------------------------------------------------
(* What a command knows of the Gateway it started.                         *)

\* Once the row told its release, the files are what the package says.
Agreed(r) ==
  /\ r.pc \in {"ready", "version"} => Speaks(r.pid, Aim(r))
  /\ r.pc \in {"save", "note"} /\ ~r.back /\ r.told => r.version = r.app
  /\ Moved(r) /\ r.told => r.version = r.app

TInv == Told /\ \A c \in Clients : Agreed(client[c])

LEMMA UnachievedAgreed ==
  ASSUME NEW r, ~Achieves(r)
  PROVE  Agreed(r)'
BY DEF Achieves, Agreed

LEMMA ConfirmsAgreed ==
  ASSUME Typed, NEW c \in Clients, Fits(client[c]), Agreed(client[c]), Told, Told',
         Look(c) \/ WaitForGatewayReady(c) \/ CheckVersion(c) \/ SavePm2State(c) \/ WriteRunningVersion(c)
  PROVE  Agreed(client[c])'
<1>1. client \in [Clients -> Command] /\ client[c] \in Command BY DEF Typed
<1>2. PICK r : r = client[c] OBVIOUS
<1>3. PICK s : s = client'[c] OBVIOUS
<1>4. r.pc \in {"look", "ready", "version", "save", "note"} /\ r.op \in Changes
  BY <1>2 DEF Look, WaitForGatewayReady, CheckVersion, SavePm2State, WriteRunningVersion, Fits, Swapping
<1>5. ~Achieves(s) => Agreed(client[c])' BY <1>3, UnachievedAgreed
<1>6. Fails(c) => Agreed(client[c])' BY <1>2, <1>3, <1>4, <1>5, FailsPlaced DEF Drops
<1>7. CASE Look(c)
  <2>1. CASE IsStarted(c) /\ client' = [client EXCEPT ![c].pc = "ready", ![c].pid = entry.pid]
    <3>1. /\ s.pc = "ready" /\ s.pid = entry.pid
          /\ s.back = r.back /\ s.old = r.old /\ s.app = r.app
      BY <1>1, <1>2, <1>3, <2>1 DEF Command
    <3>2. Aim(s) = entry.app BY <1>2, <2>1, <3>1 DEF Aim, Target, IsStarted
    <3>3. entry' = entry BY <1>7 DEF Look, Aside, daemonVars
    <3>4. Speaks(s.pid, Aim(s))' BY <3>1, <3>2, <3>3 DEF Told
    <3>5. Agreed(s)' BY <3>1, <3>4 DEF Agreed, Moved, Aim
    <3> QED BY <1>3, <3>5
  <2> QED BY <1>6, <1>7, <2>1 DEF Look
<1>8. CASE WaitForGatewayReady(c)
  <2>1. CASE Go(c, "version")
    <3>1. s.pc = "version" /\ s.pid = r.pid /\ Aim(s) = Aim(r)
      BY <1>1, <1>2, <1>3, <2>1, GoShape, AlikeAim DEF Alike
    <3>2. Speaks(r.pid, Aim(r)) /\ UNCHANGED lockVars BY <1>2, <1>8 DEF WaitForGatewayReady, Agreed, Aside
    <3>3. Speaks(s.pid, Aim(s))' BY <3>1, <3>2 DEF Speaks, Tells, lockVars
    <3>4. Agreed(s)' BY <3>1, <3>3 DEF Agreed, Moved, Aim
    <3> QED BY <1>3, <3>4
  <2> QED BY <1>6, <1>8, <2>1 DEF WaitForGatewayReady
<1>11. CASE CheckVersion(c)
  <2>1. CASE /\ IsExpected(c)
             /\ client' = [client EXCEPT ![c].pc = "save", ![c].told = (ReadyVersion(c) # NoVersion)]
    <3>1. /\ s.pc = "save" /\ s.back = r.back /\ s.version = r.version /\ s.app = r.app
          /\ s.told = (ReadyVersion(c) # NoVersion)
      BY <1>1, <1>2, <1>3, <2>1 DEF Command
    <3>2. Speaks(r.pid, Aim(r)) BY <1>2, <1>11 DEF CheckVersion, Agreed
    <3>3. ReadyVersion(c) # NoVersion => ReadyVersion(c) = Aim(r)
      BY <1>2, <3>2 DEF ReadyVersion, Speaks, Tells
    <3>4. ~s.back /\ s.told => s.version = s.app BY <1>2, <2>1, <3>1, <3>3 DEF IsExpected, Aim
    <3>5. Agreed(s)' BY <3>1, <3>4 DEF Agreed, Moved
    <3> QED BY <1>3, <3>5
  <2> QED BY <1>6, <1>11, <2>1 DEF CheckVersion
<1>9. CASE SavePm2State(c)
  <2>1. CASE Go(c, "note")
    <3>1. s.pc = "note" /\ s.back = r.back /\ s.version = r.version /\ s.app = r.app /\ s.told = r.told
      BY <1>1, <1>2, <1>3, <2>1, GoShape DEF Alike
    <3>2. ~r.back /\ r.told => r.version = r.app BY <1>2, <1>9 DEF SavePm2State, Agreed
    <3>3. Agreed(s)' BY <3>1, <3>2 DEF Agreed, Moved
    <3> QED BY <1>3, <3>3
  <2> QED BY <1>6, <1>9, <2>1 DEF SavePm2State, Call
<1>10. CASE WriteRunningVersion(c)
  <2>1. CASE r.back /\ Finish(c, "rolledback")
    <3>1. s.pc = "leave" /\ s.report = "rolledback" BY <1>1, <1>2, <1>3, <2>1, FinishShape
    <3> QED BY <1>5, <3>1 DEF Achieves, Moved
  <2>2. CASE ~r.back /\ (Go(c, "agent") \/ Finish(c, "ok"))
    <3>1. s.pc \in {"agent", "leave"} /\ s.version = r.version /\ s.app = r.app /\ s.told = r.told
      BY <1>1, <1>2, <1>3, <2>2, GoShape, FinishShape DEF Alike
    <3>2. r.told => r.version = r.app BY <1>2, <1>10, <2>2 DEF WriteRunningVersion, Agreed
    <3>3. Agreed(s)' BY <3>1, <3>2 DEF Agreed
    <3> QED BY <1>3, <3>3
  <2> QED BY <1>2, <1>6, <1>10, <2>1, <2>2 DEF WriteRunningVersion
<1> QED BY <1>7, <1>8, <1>9, <1>10, <1>11

LEMMA AgentAgreed ==
  ASSUME Typed, NEW c \in Clients, Fits(client[c]), Agreed(client[c]), AgentSteps(c)
  PROVE  Agreed(client[c])'
<1>1. client \in [Clients -> Command] /\ client[c] \in Command BY DEF Typed
<1>2. PICK r : r = client[c] OBVIOUS
<1>3. PICK s : s = client'[c] OBVIOUS
<1>4. ASSUME Moved(r), s.pc \in {"boot", "leave"}, s.app = r.app, s.version = r.version, s.told = r.told
      PROVE  Agreed(client[c])'
  <2>1. Agreed(s)' BY <1>2, <1>4 DEF Agreed
  <2> QED BY <1>3, <2>1
<1>5. ~Achieves(s) => Agreed(client[c])' BY <1>3, UnachievedAgreed
<1>6. CASE WriteAgent(c)
  <2>1. Moved(r) BY <1>2, <1>6 DEF WriteAgent, Moved
  <2>2. s.pc = "boot" /\ s.app = r.app /\ s.version = r.version /\ s.told = r.told
    BY <1>1, <1>2, <1>3, <1>6 DEF WriteAgent, Command
  <2> QED BY <1>4, <2>1, <2>2
<1>7. CASE Bootstrap(c) \/ RollbackAgent(c)
  <2>1. Moved(r) BY <1>2, <1>7 DEF Bootstrap, RollbackAgent, Moved
  <2>2. PICK report : Finish(c, report) BY <1>7 DEF Bootstrap, RollbackAgent
  <2>3. s.pc = "leave" /\ s.app = r.app /\ s.version = r.version /\ s.told = r.told
    BY <1>1, <1>2, <1>3, <2>2, FinishShape DEF Alike
  <2> QED BY <1>4, <2>1, <2>3
<1>8. CASE RemoveAgent(c)
  <2>1. r.op = "uninstall" BY <1>2, <1>8 DEF RemoveAgent, Fits
  <2>2. s.pc = "leave" /\ s.op = "uninstall"
    BY <1>1, <1>2, <1>3, <1>8, <2>1, FinishShape DEF RemoveAgent, Alike
  <2> QED BY <1>5, <2>2 DEF Achieves, Moved, Changes
<1> QED BY <1>6, <1>7, <1>8 DEF AgentSteps

LEMMA DeploysAgreed ==
  ASSUME Typed, NEW c \in Clients, Fits(client[c]), Placed(client[c]), Agreed(client[c]),
         Told, Told', Deploys(c)
  PROVE  Agreed(client[c])'
<1>1. CASE Drops(c) BY <1>1, UnachievedAgreed DEF Drops
<1>2. CASE \/ \E target \in Targets : Request(c, target)
           \/ NothingToDo(c) \/ UpgradePlugin(c) \/ RollbackPlugin(c)
           \/ TakeLock(c) \/ FindsBusy(c) \/ Refuse(c) \/ Leave(c) \/ End(c)
  BY <1>1, <1>2, OutsideStepPlaced
<1>3. CASE \/ Check(c) \/ Delete(c) \/ Deleted(c) \/ Start(c)
           \/ Clean(c) \/ Cleaned(c) \/ GoBack(c) \/ Forget(c)
  BY <1>1, <1>3, ReplacesPlaced
<1>4. CASE Look(c) \/ WaitForGatewayReady(c) \/ CheckVersion(c) \/ SavePm2State(c) \/ WriteRunningVersion(c)
  BY <1>4, ConfirmsAgreed
<1>5. CASE AgentSteps(c) BY <1>5, AgentAgreed
<1> QED BY <1>2, <1>3, <1>4, <1>5 DEF Deploys, AgentSteps

\* The Gateway another command waits for is still the same one.
LEMMA StillAgreed ==
  ASSUME Typed, Told, PidsFresh, LockMoves, NEW c \in Clients, Agreed(client[c]), client'[c] = client[c]
  PROVE  Agreed(client[c])'
<1>1. PICK r : r = client[c] OBVIOUS
<1>2. LockTypeOK BY DEF Typed, World, LockInv
<1>3. ASSUME r.pc \in {"ready", "version"} PROVE Speaks(r.pid, Aim(r))'
  <2>1. PICK q, v : q = r.pid /\ v = Aim(r) OBVIOUS
  <2>2. Speaks(q, v) BY <1>1, <1>3, <2>1 DEF Agreed
  <2>3. ~Starts(q) BY <1>1, <1>3, <2>1 DEF PidsFresh, Starts
  <2>4. Speaks(q, v)' BY <1>2, <2>2, <2>3, SpeaksOn DEF Told
  <2>5. Aim(r)' = Aim(r) BY DEF Aim
  <2> QED BY <2>1, <2>4, <2>5
<1>4. Agreed(r)' BY <1>1, <1>3 DEF Agreed, Moved
<1> QED BY <1>1, <1>4

LEMMA NextTold ==
  ASSUME DInv, TInv, [Next]_vars, [PidsFresh]_vars
  PROVE  TInv'
<1>1. Typed /\ PInv BY DEF DInv, MInv
<1>2. client \in [Clients -> Command] BY <1>1 DEF Typed
<1>3. CASE UNCHANGED vars
  BY <1>3 DEF TInv, Told, Named, Tells, Speaks, Agreed, Moved, Aim, vars, pm2Vars, lockVars, daemonVars
<1>4. ASSUME PidsFresh, Carries, NEW C \in SUBSET Clients, \A c \in C : client'[c] = client[c],
             Told' => \A c \in Clients \ C : Agreed(client[c])'
      PROVE  TInv'
  <2>1. Told' BY <1>1, <1>4, CarriesTold DEF TInv
  <2>2. \A c \in C : Agreed(client[c])' BY <1>1, <1>4, CarriesMoves, StillAgreed DEF TInv
  <2> QED BY <1>4, <2>1, <2>2 DEF TInv
<1>5. CASE PidsFresh /\ Next
  <2>1. CASE Deploying
    <3>1. PICK d \in Clients : Deploys(d) BY <2>1 DEF Deploying
    <3>2. \A c \in Clients \ {d} : client'[c] = client[c] BY <1>1, <3>1, OthersStay
    <3>3. Told' => Agreed(client[d])' BY <1>1, <3>1, DeploysAgreed DEF PInv, TInv
    <3> QED BY <1>1, <1>4, <1>5, <3>1, <3>2, <3>3, DeployCarries
  <2>2. CASE Maintaining
    <3>1. PICK d \in Clients : Maintains(d) BY <2>2 DEF Maintaining
    <3>2. \A c \in Clients \ {d} : client'[c] = client[c] BY <1>1, <3>1, OthersStay
    <3>3. Agreed(client[d])' BY <1>1, <3>1, UpkeepPlaced, UnachievedAgreed DEF PInv, Drops
    <3> QED BY <1>1, <1>4, <1>5, <3>1, <3>2, <3>3, UpkeepCarries
  <2>3. CASE Listing \/ Working
    <3>1. client' = client
      BY <2>3 DEF Listing, Daemon, Supervisor, Supervise, Resurrect, Working, GatewayAndOthers, Processes, Database
    <3> QED BY <1>1, <1>4, <1>5, <2>3, <3>1, ListingCarries, WorkingCarries
  <2>4. ASSUME NEW d \in Clients, Kill(d) PROVE TInv'
    <3>1. client' = [client EXCEPT ![d] = Idle] /\ UNCHANGED <<lockVars, daemonVars>> BY <2>4 DEF Kill, Killed
    <3>2. \A c \in Clients \ {d} : client'[c] = client[c] BY <1>2, <3>1
    <3>3. client'[d].pc = "idle" BY <1>2, <3>1, IdleType
    <3>4. Agreed(client[d])' BY <3>3 DEF Agreed, Moved
    <3> QED BY <1>4, <1>5, <3>1, <3>2, <3>4, StillCarries
  <2>5. CASE PowerFails
    <3>1. \A c \in Clients : client'[c].pc = "idle" BY <2>5, IdleType DEF PowerFails, Reboot
    <3>2. entry' = NoEntry /\ lock' = lock BY <2>5 DEF PowerFails, Reboot
    <3>3. Told' BY <3>2, NoPidIsNone DEF TInv, Told, Named, Tells, Speaks, NoEntry
    <3> QED BY <3>1, <3>3 DEF TInv, Agreed, Moved
  <2> QED BY <1>5, <2>1, <2>2, <2>3, <2>4, <2>5 DEF Next
<1> QED BY <1>3, <1>5

LEMMA InitTold == Init => TInv
<1> SUFFICES ASSUME Init PROVE TInv
  OBVIOUS
<1>0. NoPid \notin Pids BY NoPidIsNone
<1>1. \A c \in Clients : client[c].pc = "idle" BY IdleType DEF Init, NotInstalled, Pm2Init, Installed
<1>2. ASSUME NotInstalled PROVE Told
  BY <1>0, <1>2 DEF NotInstalled, Pm2Init, LockInit, NoRow, NoEntry, Told, Named, Tells, Speaks
<1>3. ASSUME NEW p \in Pids, NEW v \in Versions, Installed(p, v) PROVE Told
  <2>1. lock.pid = p /\ lock.version = v /\ entry.pid = p /\ entry.app = v /\ image[p] = v
    BY <1>3 DEF Installed
  <2> QED BY <1>0, <2>1 DEF Told, Named, Tells, Speaks
<1>4. Told BY <1>2, <1>3 DEF Init
<1> QED BY <1>1, <1>4 DEF TInv, Agreed, Moved

(* What the row of the lock says of the Gateway PM2 runs is its release,   *)
(* and what a command waited for is what it started: the check of the      *)
(* version catches files that are not what their package says              *)
(* (waitForGatewayReady, isGatewayReady in pm2.ts).                        *)
THEOREM ReleaseTold == Spec /\ [][PidsFresh]_vars => []TInv
<1>1. DInv /\ TInv /\ [Next]_vars /\ [PidsFresh]_vars => TInv' BY NextTold
<1> QED BY <1>1, InitTold, DeploymentInvariance, PTL DEF Spec

-----------------------------------------------------------------------------
(* The plugin of an upgrade.                                               *)

\* Two upgrades at a time would each replace the plugin of the other.
OneUpgrade == \A c, d \in Clients : client[c].op = "upgrade" /\ client[d].op = "upgrade" => c = d

\* An upgrade has its plugin from the locks on, and the one found at the end.
Plugged(r) ==
  r.op = "upgrade" =>
    /\ r.pc \notin {"idle", "plugin", "replug", "end"} => plugin = r.version
    /\ r.pc = "end" /\ r.report \notin {"ok", "unrecovered"} => plugin = r.plug

UInv == \A c \in Clients : Plugged(client[c])

\* Under the locks an upgrade stays the upgrade it is.
Stays(r, s) ==
  /\ r.pc \notin {"idle", "plugin", "replug", "end"}
  /\ s.pc \notin {"idle", "plugin", "replug", "end"}
  /\ s.op = r.op /\ s.version = r.version

LEMMA StaysPlugged ==
  ASSUME NEW r, NEW s, Plugged(r), Stays(r, s), UNCHANGED plugin
  PROVE  Plugged(s)'
BY DEF Plugged, Stays

LEMMA LockedStays ==
  ASSUME Typed, NEW c \in Clients, client[c].pc \notin {"idle", "plugin", "replug", "end"},
         \/ TakeLock(c) \/ FindsBusy(c) \/ Refuse(c) \/ Check(c) \/ Delete(c) \/ Deleted(c)
         \/ Start(c) \/ Look(c) \/ WaitForGatewayReady(c) \/ CheckVersion(c) \/ SavePm2State(c)
         \/ WriteRunningVersion(c) \/ Clean(c) \/ Cleaned(c) \/ GoBack(c) \/ Forget(c) \/ AgentSteps(c)
  PROVE  Stays(client[c], client'[c])
<1>1. client \in [Clients -> Command] /\ client[c] \in Command BY DEF Typed
<1>2. ASSUME NEW pc \in {"locking", "enter", "delete", "deleting", "forget", "start", "look", "version", "save", "note", "agent",
                         "clean", "cleaning", "restore", "unload"}, Go(c, pc)
      PROVE  Stays(client[c], client'[c])
  BY <1>1, <1>2, GoShape DEF Alike, Stays
<1>3. ASSUME NEW report, Finish(c, report) PROVE Stays(client[c], client'[c])
  BY <1>1, <1>3, FinishShape DEF Alike, Stays
<1>4. Fails(c) => Stays(client[c], client'[c]) BY <1>2, <1>3 DEF Fails
<1>5. CASE TakeLock(c) \/ Refuse(c) \/ Delete(c) \/ Deleted(c) \/ Clean(c) \/ Cleaned(c) \/ Forget(c)
  BY <1>2, <1>3, <1>5 DEF TakeLock, Refuse, Delete, Deleted, Clean, Cleaned, Forget, Call
<1>6. CASE Start(c) \/ SavePm2State(c) \/ WaitForGatewayReady(c) \/ WriteRunningVersion(c)
  BY <1>2, <1>3, <1>4, <1>6 DEF Start, SavePm2State, WaitForGatewayReady, WriteRunningVersion, Call
<1>7. CASE FindsBusy(c)
  <2>1. client' = [client EXCEPT ![c].pc = "leave", ![c].report = "busy"] BY <1>7 DEF FindsBusy
  <2> QED BY <1>1, <2>1 DEF Stays, Command
<1>8. CASE Check(c)
  <2>1. CASE client' = [client EXCEPT
            ![c].pc = IF entry # NoEntry THEN "delete"
                      ELSE IF client[c].op = "uninstall" THEN "forget" ELSE "start",
            ![c].old = entry.app, ![c].before = noted]
    BY <1>1, <2>1 DEF Stays, Command
  <2> QED BY <1>3, <1>8, <2>1 DEF Check
<1>9. CASE Look(c)
  <2>1. CASE client' = [client EXCEPT ![c].pc = "ready", ![c].pid = entry.pid]
    BY <1>1, <2>1 DEF Stays, Command
  <2> QED BY <1>4, <1>9, <2>1 DEF Look
<1>13. CASE CheckVersion(c)
  <2>1. CASE client' = [client EXCEPT ![c].pc = "save", ![c].told = (ReadyVersion(c) # NoVersion)]
    BY <1>1, <2>1 DEF Stays, Command
  <2> QED BY <1>4, <1>13, <2>1 DEF CheckVersion
<1>10. CASE GoBack(c)
  <2>1. CASE client' = [client EXCEPT ![c].pc = "start", ![c].back = TRUE, ![c].pid = NoPid]
    BY <1>1, <2>1 DEF Stays, Command
  <2> QED BY <1>3, <1>10, <2>1 DEF GoBack
<1>11. CASE WriteAgent(c)
  <2>1. client' = [client EXCEPT ![c].pc = "boot", ![c].prev = plist,
                                 ![c].loaded = (plist # "none" /\ agent # "none")]
    BY <1>11 DEF WriteAgent
  <2> QED BY <1>1, <2>1 DEF Stays, Command
<1>12. CASE Bootstrap(c) \/ RollbackAgent(c) \/ RemoveAgent(c)
  BY <1>3, <1>12 DEF Bootstrap, RollbackAgent, RemoveAgent
<1> QED BY <1>5, <1>6, <1>7, <1>8, <1>9, <1>10, <1>11, <1>12, <1>13 DEF AgentSteps

\* Where a command is that changes what PM2 runs, under the locks.
LEMMA LockedPlugged ==
  ASSUME Typed, NEW c \in Clients, Plugged(client[c]),
         \/ (TakeLock(c) \/ FindsBusy(c)) /\ UNCHANGED deployVars
         \/ Refuse(c) \/ Check(c) \/ Delete(c) \/ Deleted(c)
         \/ Start(c) \/ Look(c) \/ WaitForGatewayReady(c) \/ CheckVersion(c) \/ SavePm2State(c)
         \/ WriteRunningVersion(c) \/ Clean(c) \/ Cleaned(c) \/ GoBack(c) \/ Forget(c) \/ AgentSteps(c)
  PROVE  Plugged(client[c])' /\ UNCHANGED plugin
<1>1. client[c].pc \notin {"idle", "plugin", "replug", "end"}
  BY DEF TakeLock, FindsBusy, Refuse, Check, Enters, Delete, Deleted, Start, Look, WaitForGatewayReady,
     CheckVersion, SavePm2State, WriteRunningVersion, Clean, Cleaned, GoBack, Forget, AgentSteps, WriteAgent, Bootstrap,
     RollbackAgent, RemoveAgent
<1>2. UNCHANGED plugin
  BY DEF deployVars, Refuse, Check, Delete, Deleted, Start, Look, WaitForGatewayReady, CheckVersion, SavePm2State,
     WriteRunningVersion, Clean, Cleaned, GoBack, Forget, AgentSteps, WriteAgent, Bootstrap, RollbackAgent,
     RemoveAgent, Aside, Unchanging
<1>3. PICK r, s : r = client[c] /\ s = client'[c] OBVIOUS
<1>4. Stays(r, s) BY <1>1, <1>3, LockedStays
<1>5. Plugged(s)' BY <1>2, <1>3, <1>4, StaysPlugged
<1> QED BY <1>2, <1>3, <1>5

LEMMA DeploysPlugged ==
  ASSUME Typed, NEW c \in Clients, Fits(client[c]), Plugged(client[c]), Deploys(c)
  PROVE  Plugged(client[c])' /\ (plugin' # plugin => client[c].op = "upgrade")
<1>1. client \in [Clients -> Command] /\ client[c] \in Command BY DEF Typed
<1>2. PICK s : s = client'[c] OBVIOUS
<1>3. ASSUME s.op # "upgrade" \/ s.pc \in {"idle", "plugin", "replug"}
      PROVE  Plugged(client[c])'
  <2>1. Plugged(s)' BY <1>3 DEF Plugged
  <2> QED BY <1>2, <2>1
<1>4. CASE \E target \in Targets : Request(c, target)
  <2>1. PICK target \in Targets : Request(c, target) BY <1>4
  <2>2. s = NewCommand(target, IF target.op = "upgrade" THEN "plugin" ELSE "locking") /\ UNCHANGED plugin
    BY <1>1, <1>2, <2>1 DEF Request, Aside, deployVars
  <2>3. s.op = target.op /\ s.pc = IF target.op = "upgrade" THEN "plugin" ELSE "locking"
    BY <2>2, IdleType DEF NewCommand, Command
  <2> QED BY <1>3, <2>2, <2>3
<1>5. CASE NothingToDo(c) \/ End(c)
  <2>1. s = Idle /\ UNCHANGED plugin BY <1>1, <1>2, <1>5 DEF NothingToDo, End, Aside, deployVars
  <2> QED BY <1>3, <2>1, IdleType
<1>6. CASE UpgradePlugin(c)
  <2>1. client[c].op = "upgrade" BY <1>6 DEF UpgradePlugin, Fits
  <2>2. CASE /\ plugin' = client[c].version
             /\ client' = [client EXCEPT ![c].pc = "locking", ![c].paths = SavedManagementLockPaths]
    <3>1. s.pc = "locking" /\ s.version = client[c].version BY <1>1, <1>2, <2>2 DEF Command
    <3>2. Plugged(s)' BY <2>2, <3>1 DEF Plugged
    <3> QED BY <1>2, <2>1, <3>2
  <2>3. CASE client' = [client EXCEPT ![c].pc = "replug", ![c].report = "failed"]
    <3>1. s.pc = "replug" BY <1>1, <1>2, <2>3 DEF Command
    <3> QED BY <1>3, <2>1, <3>1
  <2> QED BY <1>6, <2>2, <2>3 DEF UpgradePlugin, InstallPlugin
<1>7. CASE RollbackPlugin(c)
  <2>1. client[c].op = "upgrade" BY <1>7 DEF RollbackPlugin, Fits
  <2>2. CASE plugin' = client[c].plug /\ Go(c, "end")
    <3>1. s.pc = "end" /\ s.plug = client[c].plug BY <1>1, <1>2, <2>2, GoShape DEF Alike
    <3>2. Plugged(s)' BY <2>2, <3>1 DEF Plugged
    <3> QED BY <1>2, <2>1, <3>2
  <2>3. CASE client' = [client EXCEPT ![c].pc = "end", ![c].report = "unrecovered"]
    <3>1. s.pc = "end" /\ s.report = "unrecovered" BY <1>1, <1>2, <2>3 DEF Command
    <3>2. Plugged(s)' BY <3>1 DEF Plugged
    <3> QED BY <1>2, <2>1, <3>2
  <2> QED BY <1>7, <2>2, <2>3 DEF RollbackPlugin, InstallPlugin
<1>8. CASE Leave(c)
  <2>1. UNCHANGED plugin BY <1>8 DEF Leave, deployVars
  <2>2. CASE client[c].op # "upgrade"
    <3>1. s = Idle BY <1>1, <1>2, <1>8, <2>2 DEF Leave
    <3> QED BY <1>3, <2>1, <3>1, IdleType
  <2>3. CASE client[c].op = "upgrade"
    <3> DEFINE pc == IF client[c].report # "ok" /\ client[c].plug # client[c].version THEN "replug" ELSE "end"
    <3>1. client' = [client EXCEPT ![c] = [@ EXCEPT !.pc = pc]] BY <1>8, <2>3 DEF Leave
    <3>2. /\ s.pc = pc /\ s.report = client[c].report
          /\ s.plug = client[c].plug
      BY <1>1, <1>2, <3>1 DEF Command
    <3>3. plugin = client[c].version BY <1>8, <2>3 DEF Leave, Plugged
    <3>4. Plugged(s)' BY <2>1, <3>2, <3>3 DEF Plugged
    <3> QED BY <1>2, <2>1, <3>4
  <2> QED BY <2>2, <2>3
<1> QED BY <1>4, <1>5, <1>6, <1>7, <1>8, LockedPlugged DEF Deploys, AgentSteps

\* Who maintains the database is no upgrade.
LEMMA UpkeepPlugged ==
  ASSUME Typed, NEW c \in Clients, Fits(client[c]), Maintains(c)
  PROVE  Plugged(client[c])'
<1>1. client'[c].op # "upgrade" BY UpkeepPlaced DEF Upkeep
<1> QED BY <1>1 DEF Plugged

LEMMA NextPlugged ==
  ASSUME DInv, UInv, OneUpgrade, [Next]_vars
  PROVE  UInv'
<1>1. Typed /\ PInv BY DEF DInv, MInv
<1>2. client \in [Clients -> Command] BY <1>1 DEF Typed
<1>3. ASSUME NEW c \in Clients, client'[c] = client[c], plugin' = plugin \/ client[c].op # "upgrade"
      PROVE  Plugged(client[c])'
  BY <1>3 DEF UInv, Plugged
<1>4. CASE UNCHANGED vars BY <1>3, <1>4 DEF UInv, vars, pm2Vars, deployVars
<1>5. CASE Deploying
  <2>1. PICK d \in Clients : Deploys(d) BY <1>5 DEF Deploying
  <2>2. Plugged(client[d])' /\ (plugin' # plugin => client[d].op = "upgrade")
    BY <1>1, <2>1, DeploysPlugged DEF PInv, UInv
  <2>3. ASSUME NEW c \in Clients \ {d} PROVE Plugged(client[c])'
    <3>1. client'[c] = client[c] BY <1>1, <2>1, OthersStay
    <3>2. plugin' = plugin \/ client[c].op # "upgrade" BY <2>2 DEF OneUpgrade
    <3> QED BY <1>3, <3>1, <3>2
  <2> QED BY <2>2, <2>3 DEF UInv
<1>6. CASE Maintaining
  <2>1. PICK d \in Clients : Maintains(d) /\ UNCHANGED deployVars BY <1>6 DEF Maintaining
  <2>2. Plugged(client[d])' BY <1>1, <2>1, UpkeepPlugged DEF PInv
  <2>3. \A c \in Clients \ {d} : client'[c] = client[c] BY <1>1, <2>1, OthersStay
  <2> QED BY <1>3, <2>1, <2>2, <2>3 DEF UInv, deployVars
<1>7. CASE Listing \/ Working
  <2>1. client' = client /\ UNCHANGED plugin
    BY <1>7 DEF Listing, Daemon, Supervisor, Supervise, Resurrect, Working, GatewayAndOthers, Processes, Database,
       deployVars
  <2> QED BY <1>3, <2>1 DEF UInv
<1>8. ASSUME NEW d \in Clients, Kill(d) PROVE UInv'
  <2>1. client' = [client EXCEPT ![d] = Idle] /\ UNCHANGED plugin BY <1>8 DEF Kill, Killed, deployVars
  <2>2. client'[d].pc = "idle" BY <1>2, <2>1, IdleType
  <2>3. Plugged(client[d])' BY <2>2 DEF Plugged
  <2>4. \A c \in Clients \ {d} : client'[c] = client[c] BY <1>2, <2>1
  <2> QED BY <1>3, <2>1, <2>3, <2>4 DEF UInv
<1>9. CASE PowerFails
  <2>1. \A c \in Clients : client'[c].pc = "idle" BY <1>9, IdleType DEF PowerFails, Reboot
  <2> QED BY <2>1 DEF UInv, Plugged
<1> QED BY <1>4, <1>5, <1>6, <1>7, <1>8, <1>9 DEF Next

LEMMA InitPlugged == Init => UInv
<1>1. Init => \A c \in Clients : client[c].pc = "idle"
  BY IdleType DEF Init, NotInstalled, Pm2Init, Installed
<1> QED BY <1>1 DEF UInv, Plugged

LEMMA PluginKept == Spec /\ []OneUpgrade => []UInv
<1>1. DInv /\ UInv /\ OneUpgrade /\ [Next]_vars => UInv' BY NextPlugged
<1> QED BY <1>1, InitPlugged, DeploymentInvariance, PTL DEF Spec

-----------------------------------------------------------------------------
(* The theorems.                                                           *)

(* A command that reports that it rolled back, or that the LaunchAgent is  *)
(* the previous one, is right about it, whatever else goes on, however     *)
(* many commands, faults and releases there are                            *)
(* (rollbackFailedGatewayStart, installMacLaunchAgent in pm2.ts).          *)
THEOREM AlwaysRestored == Spec => [](\A c \in Clients : GatewayRestored(c) /\ AgentRestored(c))
<1>1. DInv => \A c \in Clients : GatewayRestored(c) /\ AgentRestored(c)
  BY DEF DInv, PInv, Placed, Listed, GatewayRestored, AgentRestored, Reports
<1> QED BY <1>1, DeploymentInvariance, PTL

(* A command that reports success has left PM2 to run what it was asked    *)
(* for, from now on and after a reboot, and the version file tells the     *)
(* release, under no condition (installUnlocked, ensureGatewayUnlocked).   *)
THEOREM AlwaysInstalled ==
  Spec => [](\A c \in Clients : Reports(c, "ok") /\ client[c].op \in Changes =>
               Listed(client[c].app) /\ dump = client[c].app /\ noted = client[c].version)
<1>1. DInv => \A c \in Clients : Reports(c, "ok") /\ client[c].op \in Changes =>
        Listed(client[c].app) /\ dump = client[c].app /\ noted = client[c].version
  BY DEF DInv, PInv, Placed, Moved, Reports
<1> QED BY <1>1, DeploymentInvariance, PTL

(* A command that failed has put everything back, the plugin included, as  *)
(* long as there is one upgrade at a time: the plugin is installed and put *)
(* back under no lock (upgrade in cli/index.ts).                           *)
THEOREM FailureAlwaysUndone == Spec /\ []OneUpgrade => []FailureUndone
<1>1. DInv /\ UInv => FailureUndone
  BY DEF DInv, PInv, Placed, Listed, UInv, Plugged, FailureUndone, GatewayRestored, AgentRestored,
     PluginRestored, Reports
<1> QED BY <1>1, DeploymentInvariance, PluginKept, PTL

(* A command that reports success has brought the entry, the dump, the     *)
(* version file and the plugin of an upgrade to one release, and, unless   *)
(* the row told it nothing, the Gateway that serves as well, also where    *)
(* the files may be of another release than their package says             *)
(* (waitForGatewayReady and gatewayVersionFromLock in pm2.ts).             *)
THEOREM SuccessAlwaysAgrees == Spec /\ []OneUpgrade /\ [][PidsFresh]_vars => []SuccessAgrees
<1>1. DInv /\ TInv /\ UInv => SuccessAgrees
  <2> SUFFICES ASSUME DInv, TInv, UInv, NEW c \in Clients, Reports(c, "ok"), client[c].op \in Changes
               PROVE  /\ entry.app = client[c].app /\ dump = client[c].app
                      /\ noted = client[c].version
                      /\ client[c].op = "upgrade" => plugin = client[c].version
                      /\ client[c].told /\ lock.pid = entry.pid /\ lock.ready => lock.version = client[c].version
    BY DEF SuccessAgrees
  <2>1. client[c].pc = "leave" /\ Moved(client[c]) BY DEF Reports, Moved
  <2>2. Listed(client[c].app) /\ dump = client[c].app /\ noted = client[c].version
    BY <2>1 DEF DInv, PInv, Placed
  <2>3. client[c].told => client[c].version = client[c].app BY <2>1 DEF TInv, Agreed
  <2>4. lock.pid = entry.pid /\ lock.ready => lock.version = entry.app BY DEF TInv, Told, Speaks, Tells
  <2>5. client[c].op = "upgrade" => plugin = client[c].version BY <2>1 DEF UInv, Plugged
  <2> QED BY <2>2, <2>3, <2>4, <2>5 DEF Listed
<1> QED BY <1>1, DeploymentInvariance, ReleaseTold, PluginKept, PTL
=============================================================================
