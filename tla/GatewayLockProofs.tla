-------------------------- MODULE GatewayLockProofs --------------------------
(***************************************************************************)
(* Proofs about GatewayLock, for any number of processes and releases.     *)
(***************************************************************************)
EXTENDS GatewayLock, TLAPS

\* A Gateway that works owns the row.  This is inductive because a row is
\* only taken from a process that is dead or known not to be a Gateway.
Owned == \A p \in Pids : Works(p) => lock.pid = p

LockInv == LockTypeOK /\ Owned

LEMMA NoPidIsNone == NoPid \notin Pids /\ NoVersion \notin Versions
  BY LockConstants DEF LockConstants

LEMMA InitLock == LockInit => LockInv
  BY DEF LockInit, LockInv, LockTypeOK, Owned, Works, NoRow, Row, Phases

\* Whoever gets the lock takes it from nobody who works.
LEMMA TakesFromNoOne ==
  ASSUME LockInv, NEW p \in Pids, AcquireLock(p)
  PROVE  LockInv'
<1>1. LockTypeOK'
  BY DEF LockInv, LockTypeOK, AcquireLock, Become, Row, Phases
<1>2. ASSUME NEW q \in Pids, q # p, Works(q) PROVE FALSE
  <2>1. lock.pid = q BY <1>2 DEF LockInv, Owned
  <2>2. proc[q] \in {"starting", "up", "stopping"} BY <1>2 DEF Works
  <2>3. IsAlive(lock.pid) BY <2>1, <2>2 DEF IsAlive
  <2>4. PICK identity \in IdentifyGatewayProcess(lock.pid) : ~Refuses(p, identity)
    BY <2>1, NoPidIsNone DEF AcquireLock
  <2>5. identity # "mismatch" BY <2>1, <2>2, <2>4 DEF IdentifyGatewayProcess
  <2> QED BY <1>2, <2>1, <2>3, <2>4, <2>5 DEF Refuses
<1>3. ASSUME NEW q \in Pids, Works(q)' PROVE (lock.pid = q)'
  <2>1. q = p \/ Works(q) BY <1>3 DEF AcquireLock, Become, Works, LockInv, LockTypeOK
  <2> QED BY <1>2, <2>1 DEF AcquireLock
<1> QED BY <1>1, <1>3 DEF LockInv, Owned

LEMMA StepLock == LockInv /\ [LockNext]_lockVars => LockInv'
<1> SUFFICES ASSUME LockInv, [LockNext]_lockVars PROVE LockInv'
  OBVIOUS
<1> USE DEF LockInv, LockTypeOK, Owned, Works
<1>1. ASSUME NEW p \in Pids, GatewayStep(p) PROVE LockInv'
  <2>1. CASE AcquireLock(p) BY <2>1, TakesFromNoOne
  <2>2. CASE ExitWithoutLock(p) BY <2>2 DEF ExitWithoutLock, Die, Become, Phases
  <2>3. CASE UpdateLockHeartbeat(p) BY <2>3 DEF UpdateLockHeartbeat, Row
  <2>4. CASE MarkGatewayReady(p)
    <3>1. LockTypeOK' BY <2>4 DEF MarkGatewayReady, Become, Row, Phases
    <3>2. lock'.pid = p BY <2>4 DEF MarkGatewayReady, Row
    <3> QED BY <2>4, <3>1, <3>2 DEF MarkGatewayReady, Become
  <2>5. CASE BeginShutdown(p)
    <3>1. LockTypeOK' BY <2>5 DEF BeginShutdown, Become, Row, Phases
    <3>2. lock'.pid = lock.pid BY <2>5 DEF BeginShutdown, Row
    <3> QED BY <2>5, <3>1, <3>2 DEF BeginShutdown, Become
  <2>6. CASE ReleaseLock(p)
    <3>1. LockTypeOK' BY <2>6 DEF ReleaseLock, Become, Row, NoRow, Phases
    <3>2. lock.pid = p BY <2>6 DEF ReleaseLock
    <3>3. ASSUME NEW q \in Pids, Works(q)' PROVE FALSE
      <4>1. q # p BY <2>6, <3>3 DEF ReleaseLock, Become
      <4>2. Works(q) BY <2>6, <3>3, <4>1 DEF ReleaseLock, Become
      <4> QED BY <3>2, <4>1, <4>2
    <3> QED BY <3>1, <3>3
  <2> QED BY <1>1, <2>1, <2>2, <2>3, <2>4, <2>5, <2>6 DEF GatewayStep
<1>2. ASSUME NEW p \in Pids, Die(p) PROVE LockInv'
  BY <1>2 DEF Die, Become, Phases
<1>3. ASSUME NEW p \in Pids, NEW phase \in {"other", "elsewhere", "boot"}, NEW version \in Versions,
             Spawn(p, phase, version)
      PROVE  LockInv'
  BY <1>3 DEF Spawn, Become, Phases
<1>4. CASE Age
  <2>1. lock' \in Row /\ lock'.pid = lock.pid BY <1>4 DEF Age, Row
  <2> QED BY <1>4, <2>1 DEF Age
<1>5. CASE ForgetLock
  <2>1. LockTypeOK' BY <1>5 DEF ForgetLock, Row, NoRow
  <2>2. ASSUME NEW q \in Pids, Works(q)' PROVE FALSE
    <3>1. Works(q) /\ lock.pid = q BY <1>5, <2>2 DEF ForgetLock
    <3> QED BY <1>5, <3>1 DEF ForgetLock, IsAlive
  <2> QED BY <2>1, <2>2
<1>6. CASE UNCHANGED lockVars BY <1>6 DEF lockVars
<1> QED BY <1>1, <1>2, <1>3, <1>4, <1>5, <1>6 DEF LockNext

(* Every reachable state satisfies the invariant (acquireLock, releaseLock *)
(* and the life of a Gateway in gateway/index.ts).                         *)
THEOREM LockInvariance == LockSpec => []LockInv
  BY InitLock, StepLock, PTL DEF LockSpec

(* The row and the table of processes keep their types.                    *)
THEOREM LockTypeCorrect == LockSpec => []LockTypeOK
<1>1. LockInv => LockTypeOK BY DEF LockInv
<1> QED BY LockInvariance, <1>1, PTL

(* Two Gateways never work on one database, whatever processes are         *)
(* started, suspended, killed or given used pids (acquireLock).            *)
THEOREM OnlyOneGateway == LockSpec => []OneGateway
<1>1. LockInv => OneGateway BY DEF LockInv, Owned, OneGateway
<1> QED BY LockInvariance, <1>1, PTL
=============================================================================
