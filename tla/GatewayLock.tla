----------------------------- MODULE GatewayLock -----------------------------
(***************************************************************************)
(* The row of gateway_lock that lets one Gateway at most work on a         *)
(* database.  It holds a pid, and pids are used again: whether the process *)
(* that has it is a Gateway is guessed from its command line, which may be *)
(* unreadable.  An owner that is slow, suspended or shutting down does not *)
(* renew the row, so that an old heartbeat alone says nothing.             *)
(***************************************************************************)
EXTENDS Naturals

CONSTANTS
  Pids,           \* process ids of the machine
  Versions        \* releases of the package, in order

NoPid == 0
NoVersion == 0

ASSUME LockConstants ==
  /\ Pids \subseteq Nat \ {NoPid}
  /\ Versions \subseteq Nat \ {NoVersion}

VARIABLES
  proc,           \* what runs under a pid
  image,          \* the release a Gateway process was started from
  lock            \* the row of gateway_lock; fresh: its heartbeat is recent

lockVars == <<proc, image, lock>>

\* "other" is any program, "elsewhere" a Gateway of another database; the
\* rest are the stages of a Gateway of this one.
Phases == {"gone", "other", "elsewhere", "boot", "starting", "up", "stopping", "leaving"}

Row == [pid : Pids \cup {NoPid}, fresh : BOOLEAN, ready : BOOLEAN,
        version : Versions \cup {NoVersion}]

NoRow == [pid |-> NoPid, fresh |-> FALSE, ready |-> FALSE, version |-> NoVersion]

LockTypeOK ==
  /\ proc \in [Pids -> Phases]
  /\ image \in [Pids -> Versions \cup {NoVersion}]
  /\ lock \in Row

LockInit ==
  /\ proc = [p \in Pids |-> "gone"]
  /\ image = [p \in Pids |-> NoVersion]
  /\ lock = NoRow

-----------------------------------------------------------------------------
(* What another process can tell of an owner.                              *)

IsAlive(p) == p \in Pids /\ proc[p] # "gone"

\* ps or tasklist may fail, or the process end while it is looked at.
IdentifyGatewayProcess(p) ==
  {"unknown", "not-running"} \cup {IF proc[p] = "other" THEN "mismatch" ELSE "match"}

\* isGatewayReady for the process PM2 started.
IsReady(p) == lock.pid = p /\ lock.ready /\ lock.fresh

\* Fault: an old heartbeat is enough to take over.
HastyRefuses(p, identity) ==
  /\ lock.pid # p
  /\ IsAlive(lock.pid)
  /\ lock.fresh

\* A live owner keeps the lock unless its heartbeat is old and its command
\* line is known not to be a Gateway's.
Refuses(p, identity) ==
  /\ lock.pid # p
  /\ IsAlive(lock.pid)
  /\ lock.fresh \/ identity # "mismatch"

-----------------------------------------------------------------------------
(* The life of a Gateway.                                                  *)

Become(p, phase) == proc' = [proc EXCEPT ![p] = phase]

\* A process is started under a free pid.
Spawn(p, phase, version) ==
  /\ proc[p] = "gone"
  /\ Become(p, phase)
  /\ image' = [image EXCEPT ![p] = IF phase = "boot" THEN version ELSE NoVersion]
  /\ UNCHANGED lock

\* Any process may end or be killed at any moment, a row of its left behind.
Die(p) ==
  /\ proc[p] # "gone"
  /\ Become(p, "gone") /\ image' = [image EXCEPT ![p] = NoVersion]
  /\ UNCHANGED lock

AcquireLock(p) ==
  /\ proc[p] = "boot"
  /\ lock.pid # NoPid => \E identity \in IdentifyGatewayProcess(lock.pid) : ~Refuses(p, identity)
  /\ lock' = [pid |-> p, fresh |-> TRUE, ready |-> FALSE, version |-> NoVersion]
  /\ Become(p, "starting") /\ UNCHANGED image

\* The process exits, and PM2 may try again.
ExitWithoutLock(p) ==
  /\ proc[p] = "boot"
  /\ lock.pid # NoPid /\ \E identity \in IdentifyGatewayProcess(lock.pid) : Refuses(p, identity)
  /\ Die(p)

UpdateLockHeartbeat(p) ==
  /\ proc[p] \in {"starting", "up"}
  /\ lock.pid = p
  /\ lock' = [lock EXCEPT !.fresh = TRUE]
  /\ UNCHANGED <<proc, image>>

\* 30 seconds pass without a heartbeat.
Age == lock.fresh /\ lock' = [lock EXCEPT !.fresh = FALSE] /\ UNCHANGED <<proc, image>>

\* Scheduler, Dashboard, Watchdog and Worker run; version tells clients what.
MarkGatewayReady(p) ==
  /\ proc[p] = "starting"
  /\ lock.pid = p
  /\ lock' = [lock EXCEPT !.fresh = TRUE, !.ready = TRUE, !.version = image[p]]
  /\ Become(p, "up") /\ UNCHANGED image

\* A signal, a lost lock, a failed start or an uncaught exception: from now
\* on no heartbeat, while executions may take their grace period to end.
BeginShutdown(p) ==
  /\ proc[p] \in {"starting", "up"}
  /\ lock' = IF lock.pid = p THEN [lock EXCEPT !.ready = FALSE] ELSE lock
  /\ Become(p, "stopping") /\ UNCHANGED image

\* Whatever step of the shutdown failed, the lock is given back before exit.
ReleaseLock(p) ==
  /\ proc[p] = "stopping"
  /\ lock' = IF lock.pid = p THEN NoRow ELSE lock
  /\ Become(p, "leaving") /\ UNCHANGED image

\* restore deletes the row of an owner that is no more.
ForgetLock == ~IsAlive(lock.pid) /\ lock' = NoRow /\ UNCHANGED <<proc, image>>

GatewayStep(p) ==
  \/ AcquireLock(p) \/ ExitWithoutLock(p)
  \/ UpdateLockHeartbeat(p) \/ MarkGatewayReady(p)
  \/ BeginShutdown(p) \/ ReleaseLock(p)

LockNext ==
  \/ \E p \in Pids :
        \/ GatewayStep(p) \/ Die(p)
        \/ \E phase \in {"other", "elsewhere", "boot"}, version \in Versions : Spawn(p, phase, version)
  \/ Age \/ ForgetLock

LockSpec == LockInit /\ [][LockNext]_lockVars

-----------------------------------------------------------------------------
(* Correctness.                                                            *)

\* Gateways that claim, execute or clone tasks.
Works(p) == proc[p] \in {"starting", "up", "stopping"}

(* At most one Gateway works on the database: neither two that start       *)
(* together, nor one that finds the row of an owner with an old heartbeat, *)
(* in the middle of a long shutdown, or under a pid used before            *)
(* (acquireLock in gateway/index.ts).                                      *)
OneGateway == \A p, q \in Pids : Works(p) /\ Works(q) => p = q
=============================================================================
