----------------------------- MODULE MCExecution -----------------------------
(* Execution on small instances.                                           *)
EXTENDS Execution

\* Two tasks of one batch, or of none, and a started Gateway.
PairInit ==
  /\ tasks \in UNION {[TaskId -> [status : {"pending"}, retryCount : {0}, maxRetries : {0},
                                  wait : {FALSE}, finished : {FALSE}, dependsOn : {0},
                                  batch : {b}, cwd : Cwds, prio : Prios]] : b \in Batches \cup {NoBatch}}
  /\ nextTask = MaxTasks + 1
  /\ runs = [r \in {} |-> {}] /\ nextRun = 2
  /\ gateway = "up" /\ Idle
  /\ childPid = {} /\ protocol = [r \in RunId |-> "token"] /\ group = [r \in RunId |-> "none"]

\* Of the clients' operations, the one that reaches a task in execution.
PairNext ==
  \/ Queue!ClientCancel /\ UNCHANGED <<memory, osVars>>
  \/ GatewayStart \/ GatewayReady \/ Crash \/ Shutdown
  \/ Cycle \/ Entries \/ Watchdog \/ Processes

\* An empty database; or what an earlier release left: a task with an open
\* run, under any protocol.  A launcher whose pid was never recorded has not
\* been given START.
FreshInit ==
  /\ tasks = [t \in {} |-> {}] /\ nextTask = MaxTasks
  /\ runs = [r \in {} |-> {}] /\ nextRun = 1
  /\ gateway = "down" /\ Idle
  /\ childPid = {} /\ protocol = [r \in RunId |-> "token"] /\ group = [r \in RunId |-> "none"]

LegacyInit ==
  /\ tasks \in [{1} -> [status : {"running", "cancelled"}, retryCount : {0}, maxRetries : {1},
                        wait : {FALSE}, finished : {FALSE}, dependsOn : {0},
                        batch : {NoBatch}, cwd : Cwds, prio : Prios]]
  /\ runs = [r \in {1} |-> [task |-> 1, status |-> "running"]]
  /\ nextTask = MaxTasks + 1 /\ nextRun = 2
  /\ gateway = "down" /\ Idle
  /\ childPid \in SUBSET {1}
  /\ \E p \in Protocols, g \in {"none", "work", "loose", "gone"} :
        /\ protocol = [r \in RunId |-> IF r = 1 THEN p ELSE "token"]
        /\ group = [r \in RunId |-> IF r = 1 THEN g ELSE "none"]
        /\ p \in {"guardian", "token"} /\ childPid = {} => g \in {"none", "gone"}

\* One task at most, which may be retried once, and all that clients do.
AgainNext ==
  /\ Next
  /\ \A t \in DOMAIN tasks' : tasks'[t].maxRetries = 1 /\ tasks'[t].batch = NoBatch

Paired == DOMAIN tasks = TaskId

GroupsNext == Abandon \/ (Paired /\ PairNext) \/ (~Paired /\ AgainNext)

GroupsSpec ==
  /\ PairInit \/ FreshInit \/ LegacyInit
  /\ [][GroupsNext]_vars
=============================================================================
