----------------------------- MODULE Management -----------------------------
(***************************************************************************)
(* The Gateway, PM2, the supervisor, and all commands about them: those    *)
(* that change what PM2 runs, those that change the database, and the      *)
(* plugin, which does the former of itself.                                *)
(***************************************************************************)
EXTENDS Deployment, Maintenance

vars == <<pm2Vars, deployVars, dbVars>>

TypeOK == Pm2TypeOK /\ DeployTypeOK /\ DbTypeOK

\* PM2 knows no Gateway.
NotInstalled == Pm2Init /\ noted = NoVersion /\ plugin \in Versions

\* A Gateway that an earlier release installed and that works.
Installed(p, v) ==
  /\ proc = [q \in Pids |-> IF q = p THEN "up" ELSE "gone"]
  /\ image = [q \in Pids |-> IF q = p THEN v ELSE NoVersion]
  /\ lock = [pid |-> p, fresh |-> TRUE, ready |-> TRUE, version |-> v]
  /\ entry = [app |-> v, status |-> "online", pid |-> p]
  /\ dump = v /\ noted = v /\ plugin \in Versions
  /\ plist = "old" /\ agent = "old" /\ sup = "idle"
  /\ locks = [path \in LockPaths |-> "nobody"]
  /\ client = [c \in Clients |-> Idle]
  /\ faults = 0

Init ==
  /\ DbInit
  /\ NotInstalled \/ \E p \in Pids, v \in Versions : Installed(p, v)

Deploying == \E c \in Clients : Deploys(c) /\ UNCHANGED dbVars
Maintaining == \E c \in Clients \ Plugins : Maintains(c) /\ UNCHANGED deployVars

Listing == (Daemon \/ Supervisor) /\ UNCHANGED <<deployVars, dbVars>>
Working == (GatewayAndOthers \/ Database) /\ UNCHANGED deployVars

\* The transactions of a process that is no more are rolled back.
Kill(c) ==
  /\ Killed(c)
  /\ writer' = IF writer = c THEN "nobody" ELSE writer
  /\ UNCHANGED <<deployVars, rows, last, seq, open, cut, snapshot>>

PowerFails ==
  /\ Reboot
  /\ writer' = "nobody"
  /\ UNCHANGED <<deployVars, rows, last, seq, open, cut, snapshot>>

Next ==
  \/ Deploying \/ Maintaining \/ Listing \/ Working
  \/ \E c \in Clients : Kill(c)
  \/ PowerFails

Spec == Init /\ [][Next]_vars

-----------------------------------------------------------------------------
(* A Gateway that PM2 has been told to run.                                *)

\* The processes do what they are there for; commands may take for ever.
Progress(p) ==
  /\ \/ AcquireLock(p) \/ ExitWithoutLock(p) \/ MarkGatewayReady(p) \/ ReleaseLock(p) \/ Heed(p)
     \/ proc[p] = "leaving" /\ Die(p)
  /\ GatewayAndOthers /\ UNCHANGED deployVars

Fairness ==
  /\ \A p \in Pids : WF_vars(Progress(p))
  /\ WF_vars((Reap \/ Restart) /\ Listing)
  /\ WF_vars(Supervisor /\ Listing)

Serving == \E p \in Pids : proc[p] = "up"

\* Nothing was saved, nothing resurrects; PM2 was told to stop the Gateway
\* or has given up; a command is at work; the lock names a live process
\* that is not a Gateway of this database, which cannot always be told.
Excused ==
  \/ dump = NoVersion \/ agent = "none"
  \/ entry.status \in {"stopped", "errored"}
  \/ \E path \in LockPaths : locks[path] \in Clients
  \/ lock.pid # NoPid /\ proc[lock.pid] \in {"other", "elsewhere"}

(* Whatever crashed, was killed or rebooted, and wherever a command was    *)
(* when it ended: the Gateway serves again, started by PM2 or by the       *)
(* supervisor, or one of the reasons why not persists or comes back        *)
(* (superviseUnlocked in daemon/pm2-supervisor.ts, acquireLock).           *)
Recovers == []<>(Serving \/ Excused)
=============================================================================
