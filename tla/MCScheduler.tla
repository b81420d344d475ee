---------------------------- MODULE MCScheduler ----------------------------
(* Scheduler on small instances.                                           *)
EXTENDS Scheduler

VARIABLE mode     \* what a behaviour is about

Recurring(every) == [kind |-> "recurring", every |-> every, runAt |-> 0]
Cron(every) == [kind |-> "cron", every |-> every, runAt |-> 0]
Delayed(runAt) == [kind |-> "delayed", every |-> 0, runAt |-> runAt]

AllPlans == {Recurring(2), Cron(2), Cron(0), Delayed(2)}
BusyPlans == {Recurring(1), Delayed(1)}
CataloguePlans == AllPlans \cup BusyPlans
OneJob == [batch : {NoBatch}, cwd : Cwds, prio : Prios, limit : RetryLimits]

Row(plan, cap, next) ==
  [plan |-> plan, job |-> CHOOSE job \in Jobs : TRUE, cap |-> cap, enabled |-> TRUE,
   next |-> next, ran |-> FALSE]

StoredInit(rows) ==
  /\ Init
  /\ templates \in rows
  /\ nextTemplate = MaxTemplates + 1
  /\ origin = [t \in {} |-> {}]
  /\ now = 1
  /\ sched = "off"
  /\ Forgotten

Restarts == (GatewayStart \/ GatewayReady \/ GatewayExit) /\ Beside

\* Templates alone: their tasks stay where they are.
TemplatesNext == Restarts \/ TemplateClient \/ SchedulerStep \/ PurgeDelayed \/ Tick

\* Without the steps by which users go beyond maxInstances.
TogetherNext == (Queue /\ ~Revives) \/ (TemplateClient /\ ~LowersCap) \/ SchedulerStep \/ PurgeDelayed \/ Tick

\* At first there is no template, or one an earlier release stored without
\* a slot.
CatalogueInit ==
  \/ SchedInit /\ mode \in {"templates", "together"}
  \/ StoredInit([TemplateId -> {Row(plan, 2, 0) : plan \in AllPlans}]) /\ mode = "templates"

\* Either templates of every kind and a long time, or little of everything.
Bounded ==
  LET rows == {templates'[p] : p \in DOMAIN templates'}
  IN  IF mode = "templates"
      THEN \A row \in rows : row.plan \in AllPlans /\ row.cap = 2
      ELSE /\ now' <= 2 /\ nextTask' <= 3
           /\ \A row \in rows : row.plan \in BusyPlans /\ row.cap = 1

CatalogueNext ==
  /\ \/ mode = "templates" /\ TemplatesNext
     \/ mode = "together" /\ TogetherNext
  /\ Bounded
  /\ UNCHANGED mode

CatalogueSpec == CatalogueInit /\ [][CatalogueNext]_<<allVars, mode>>

\* More due templates than a page holds.
TurnsNext ==
  /\ \/ (GatewayStart \/ GatewayReady \/ GatewayStop \/ GatewayExit) /\ Beside
     \/ \E p \in DOMAIN templates : DisableTemplate(p) \/ EnableTemplate(p)
     \/ SchedulerStep \/ Tick
  /\ UNCHANGED mode

TurnsSpec ==
  /\ StoredInit([TemplateId -> {Row(plan, 1, 1) : plan \in Plans}])
  /\ mode = "turns"
  /\ [][TurnsNext]_<<allVars, mode>>
  /\ SchedFairness
=============================================================================
