----------------------------- MODULE MCTaskQueue -----------------------------
(* TaskQueue on small instances.                                           *)
EXTENDS TaskQueue, TLC

Symmetry == Permutations(Cwds)

\* Rows an earlier release may have left: any dependency on an older id,
\* stored or not, of this project or another, in any status.
LegacyRow(id) ==
  {row \in [status : TaskStatus, retryCount : {0, 1}, maxRetries : {0}, wait : {FALSE},
            finished : {FALSE}, dependsOn : 0 .. id - 1, batch : {NoBatch}, cwd : Cwds, prio : {0}] :
     row.retryCount = 1 <=> row.status \in {"failed", "dead_letter"}}

\* Every release claimed a task only after its dependency was done.
LegacyInit ==
  /\ \E S \in SUBSET TaskId :
        tasks \in {db \in [S -> UNION {LegacyRow(t) : t \in TaskId}] : \A t \in S : db[t] \in LegacyRow(t)}
  /\ DependencyFirst
  /\ runs = [r \in {} |-> {}]
  /\ nextTask = MaxTasks + 1
  /\ nextRun = 1
  /\ gateway = "down" /\ phase = "idle" /\ claim = 0

LegacySpec == LegacyInit /\ [][Next]_vars
=============================================================================
