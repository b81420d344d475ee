------------------------------ MODULE Scheduler ------------------------------
(***************************************************************************)
(* Templates of scheduled tasks and the Scheduler that turns them into     *)
(* tasks of the queue, beside all the queue does (TaskQueue).              *)
(*                                                                         *)
(* A tick of the Scheduler reads a page of due templates and clones one    *)
(* after the other, each in a transaction of its own.  The page is a       *)
(* snapshot: clients edit, disable, enable and delete templates at any     *)
(* moment, and whether a slot is still the one that was read is decided in *)
(* the transaction.  Within the Gateway a tick is one event; only claiming *)
(* a task and recording its run must not be split by it (phase claimed).   *)
(*                                                                         *)
(* Times are numbers, and 0 is NULL.  Templates keep what decides when and *)
(* how often they are cloned, and the columns a clone hands to the queue.  *)
(***************************************************************************)
EXTENDS TaskQueue

CONSTANTS
  MaxTemplates,   \* bound: highest task_templates.id a behaviour reaches
  MaxTime,        \* bound: the clock stops here
  PageSize,       \* DUE_TEMPLATE_BATCH_SIZE
  Plans,          \* [kind, every, runAt] clients ask for
  Jobs,           \* [batch, cwd, prio, limit] clients ask for
  Caps            \* values of max_instances

Kinds == {"cron", "recurring", "delayed"}

\* every: intervalMs, or the distance of the points in time a cron
\* expression names; 0 for a valid expression that names none (30 February).
Plan ==
  {plan \in [kind : Kinds, every : Nat, runAt : Nat] :
     /\ plan.kind = "recurring" => plan.every # 0
     /\ plan.kind = "delayed" => plan.runAt # 0}
Job == [batch : Batches \cup {NoBatch}, cwd : Cwds, prio : Prios, limit : RetryLimits]

ASSUME SchedulerConstants ==
  /\ MaxTemplates \in Nat \ {0}
  /\ MaxTime \in Nat
  /\ PageSize \in Nat \ {0}
  /\ Plans \subseteq Plan
  /\ Jobs \subseteq Job
  /\ Caps \subseteq Nat \ {0}

VARIABLES
  templates,      \* the rows of task_templates, by id
  nextTemplate,   \* its AUTOINCREMENT
  origin,         \* templateId and scheduledAt of each task, and who created it
  now,            \* Date.now()
  sched,          \* "off", "init" (initializeTemplates) or "on"
  upto,           \* initializeTemplates' cursor
  sweep,          \* dueSweep: cutoff, and key of the last template read
  todo,           \* the templates of the page still to be cloned, as read
  at              \* nowMs of the clone about to be attempted

schedVars == <<templates, nextTemplate, origin, now, sched, upto, sweep, todo, at>>
allVars == <<vars, schedVars>>

TemplateId == 1 .. MaxTemplates

TemplateRow == [plan : Plan, job : Job, cap : Nat, enabled : BOOLEAN, next : Nat, ran : BOOLEAN]

\* Who created a task: a client, "run now", or the Scheduler, by kind.
Origin == [template : TemplateId \cup {0}, slot : Nat, by : Kinds \cup {"client", "trigger"}]

Key == [id : TemplateId, slot : Nat]

SchedTypeOK ==
  /\ TypeOK
  /\ DOMAIN templates \subseteq TemplateId
  /\ templates \in [DOMAIN templates -> TemplateRow]
  /\ nextTemplate \in 1 .. MaxTemplates + 1
  /\ origin \in [DOMAIN tasks -> Origin]
  /\ now \in Nat
  /\ sched \in {"off", "init", "on"}
  /\ upto \in TemplateId \cup {0}
  /\ sweep \in [cutoff : Nat, id : TemplateId \cup {0}, slot : Nat]
  /\ todo \in SUBSET Key
  /\ at \in Nat

NoSweep == [cutoff |-> 0, id |-> 0, slot |-> 0]

\* What the Gateway's process remembers is gone with it.
Forgotten == upto = 0 /\ sweep = NoSweep /\ todo = {} /\ at = 0

SchedInit ==
  /\ Init
  /\ templates = [p \in {} |-> {}]
  /\ nextTemplate = 1
  /\ origin = [t \in {} |-> {}]
  /\ now = 1
  /\ sched = "off"
  /\ Forgotten

-----------------------------------------------------------------------------
(* When a template is due next.                                            *)

\* The first point of a cron expression after a time.
NextCronRun(every, after) == IF every = 0 THEN 0 ELSE (after \div every + 1) * every

CalculateNextRunAt(plan, after) ==
  CASE plan.kind = "cron" -> NextCronRun(plan.every, after)
    [] plan.kind = "recurring" -> after + plan.every
    [] plan.kind = "delayed" -> plan.runAt

\* Fault: the delay of every tick is added to the schedule.
DriftingSlot(row, after) == CalculateNextRunAt(row.plan, after)

\* Fault: the slot just served is not left behind.
RepeatedSlot(row, after) ==
  IF row.plan.kind = "recurring" /\ row.next # 0 /\ row.next <= after
  THEN row.next + ((after - row.next) \div row.plan.every) * row.plan.every
  ELSE CalculateNextRunAt(row.plan, after)

\* After a slot served or skipped: an interval counts from the slot, not
\* from the time it was served, and slots missed are left out.
NextRunAfterScheduledSlot(row, after) ==
  IF row.plan.kind = "recurring" /\ row.next # 0 /\ row.next <= after
  THEN row.next + ((after - row.next) \div row.plan.every + 1) * row.plan.every
  ELSE CalculateNextRunAt(row.plan, after)

-----------------------------------------------------------------------------
(* Clients of the templates.                                               *)

SchedulerIdles == UNCHANGED <<now, sched, upto, sweep, todo, at>>

\* Fault: the template of a new task is not recorded.
FaultyOriginates(new) == origin' = [t \in DOMAIN tasks' \cap DOMAIN tasks |-> origin[t]]

\* The origin of the tasks a step leaves; new is the one of a task it adds.
Originates(new) ==
  origin' = [t \in DOMAIN tasks' |-> IF t \in DOMAIN tasks THEN origin[t] ELSE new]

FromClient == [template |-> 0, slot |-> 0, by |-> "client"]

CreateTemplate(plan, job, cap) ==
  /\ nextTemplate <= MaxTemplates
  /\ templates' = [p \in DOMAIN templates \cup {nextTemplate} |->
                     IF p = nextTemplate
                     THEN [plan |-> plan, job |-> job, cap |-> cap, enabled |-> TRUE,
                           next |-> CalculateNextRunAt(plan, now), ran |-> FALSE]
                     ELSE templates[p]]
  /\ nextTemplate' = nextTemplate + 1
  /\ UNCHANGED <<vars, origin>> /\ SchedulerIdles

WriteTemplate(p, row) ==
  /\ templates' = [templates EXCEPT ![p] = row]
  /\ UNCHANGED <<vars, nextTemplate, origin>> /\ SchedulerIdles

\* The schedule starts afresh; enabled and lastRunAt stay as they are.
UpdateTemplate(p, plan, job, cap) ==
  WriteTemplate(p, [templates[p] EXCEPT !.plan = plan, !.job = job, !.cap = cap,
                                        !.next = CalculateNextRunAt(plan, now)])

\* A slot missed while the template was disabled is left out, except that
\* of a one-off plan.
EnabledSlot(row) ==
  LET stale == row.next <= now /\ row.plan.kind # "delayed"
  IN IF row.next # 0 /\ ~stale THEN row.next ELSE CalculateNextRunAt(row.plan, now)

EnableTemplate(p) ==
  /\ EnabledSlot(templates[p]) # 0
  /\ WriteTemplate(p, [templates[p] EXCEPT !.enabled = TRUE, !.next = EnabledSlot(templates[p])])

DisableTemplate(p) == WriteTemplate(p, [templates[p] EXCEPT !.enabled = FALSE])

RemoveTemplates(S) ==
  /\ templates' = [p \in DOMAIN templates \ S |-> templates[p]]
  /\ UNCHANGED <<vars, nextTemplate, origin>> /\ SchedulerIdles

\* Fault: a blank batch id is handed on as it is.
FaultyAddFrom(row) ==
  Add(0, IF row.job.batch = NoBatch THEN "" ELSE row.job.batch, row.job.cwd, row.job.prio, row.job.limit)

AddFrom(row) == Add(0, row.job.batch, row.job.cwd, row.job.prio, row.job.limit)

\* "Run now", whether enabled or not; the schedule is not touched.
TriggerTemplate(p) ==
  /\ AddFrom(templates[p])
  /\ Originates([template |-> p, slot |-> now, by |-> "trigger"])
  /\ UNCHANGED <<queueVars, templates, nextTemplate>> /\ SchedulerIdles

TemplateClient ==
  \/ \E plan \in Plans, job \in Jobs, cap \in Caps : CreateTemplate(plan, job, cap)
  \/ \E p \in DOMAIN templates :
        \/ \E plan \in Plans, job \in Jobs, cap \in Caps : UpdateTemplate(p, plan, job, cap)
        \/ EnableTemplate(p) \/ DisableTemplate(p) \/ RemoveTemplates({p})
        \/ TriggerTemplate(p)

-----------------------------------------------------------------------------
(* The Scheduler.                                                          *)

\* Templates stored before their first slot was calculated.
Undated == {p \in DOMAIN templates : templates[p].enabled /\ templates[p].next = 0}

\* One step of initializeTemplates, by ascending id.
InitializeNextRunAt(p) ==
  /\ sched = "init" /\ gateway = "up"
  /\ p \in Undated /\ p > upto
  /\ \A q \in Undated : q > upto => p <= q
  /\ templates' = [templates EXCEPT ![p].next = CalculateNextRunAt(templates[p].plan, now)]
  /\ upto' = p
  /\ UNCHANGED <<vars, nextTemplate, origin, now, sched, sweep, todo, at>>

Started ==
  /\ sched = "init" /\ gateway = "up"
  /\ \A p \in Undated : p <= upto
  /\ sched' = "on"
  /\ upto' = 0
  /\ UNCHANGED <<vars, templates, nextTemplate, origin, now, sweep, todo, at>>

\* The order of a sweep: (nextRunAt, id).
Earlier(k, l) ==
  \/ k.slot < l.slot
  \/ k.slot = l.slot /\ k.id < l.id

KeyOf(p) == [id |-> p, slot |-> templates[p].next]

DueBy(cutoff) ==
  {p \in DOMAIN templates : templates[p].enabled /\ templates[p].next # 0 /\ templates[p].next <= cutoff}

\* Fault: every page is read up to the current time.
FaultyCutoff == now

\* The time a sweep of several pages was begun at.
Cutoff == IF sweep = NoSweep THEN now ELSE sweep.cutoff

\* What the sweep in course, or a new one, has still to read.
Ahead == {KeyOf(p) : p \in {q \in DueBy(Cutoff) : Earlier(sweep, KeyOf(q))}}

Page == {k \in Ahead : Cardinality({l \in Ahead : Earlier(l, k)}) < PageSize}

\* Fault: every tick reads the first page.
ForgetfulSweep == {NoSweep}

\* The next tick goes on behind a full page, or starts afresh.
Continued ==
  IF Cardinality(Page) < PageSize
  THEN {NoSweep}
  ELSE {[cutoff |-> Cutoff, id |-> last.id, slot |-> last.slot] :
          last \in {k \in Page : \A l \in Page \ {k} : Earlier(l, k)}}

\* A tick, up to its first transaction.  dueSweep is read by the next tick
\* only, so it may be set here.
ReadDue ==
  /\ sched = "on" /\ gateway = "up" /\ phase # "claimed"
  /\ todo = {}
  /\ todo' = Page
  /\ sweep' \in Continued
  /\ at' = IF Page = {} THEN 0 ELSE now
  /\ UNCHANGED <<vars, templates, nextTemplate, origin, now, sched, upto>>

Live(t) ==
  \/ tasks[t].status \in {"pending", "running"}
  \/ tasks[t].status = "failed" /\ tasks[t].retryCount <= tasks[t].maxRetries

\* Fault: runs whose task is no longer live are not counted.
FaultyInstances(p) == Cardinality({t \in DOMAIN tasks : origin[t].template = p /\ Live(t)})

Instances(p) ==
  Cardinality({t \in DOMAIN tasks : origin[t].template = p /\ (Live(t) \/ OpenRuns(t) # {})})

\* Fault: the slot that was read is not compared.
FaultyStillDue(k) == k.id \in DOMAIN templates /\ templates[k.id].enabled

StillDue(k) == k.id \in DOMAIN templates /\ templates[k.id].enabled /\ templates[k.id].next = k.slot

\* The transaction for the next template of the page is over.
Turn(k) ==
  /\ phase # "claimed"
  /\ k \in todo
  /\ \A l \in todo \ {k} : Earlier(k, l)
  /\ todo' = todo \ {k}
  /\ at' = IF todo' = {} THEN 0 ELSE now
  /\ UNCHANGED <<queueVars, nextTemplate, now, sched, upto, sweep>>

\* Fault: a one-off template stays enabled.
FaultyServed(row) ==
  IF row.plan.kind = "delayed"
  THEN [row EXCEPT !.ran = TRUE, !.next = 0]
  ELSE [row EXCEPT !.ran = TRUE, !.next = NextRunAfterScheduledSlot(row, at)]

\* A one-off template is disabled by its clone.
Served(row) ==
  IF row.plan.kind = "delayed"
  THEN [row EXCEPT !.ran = TRUE, !.next = 0, !.enabled = FALSE]
  ELSE [row EXCEPT !.ran = TRUE, !.next = NextRunAfterScheduledSlot(row, at)]

CloneTask(k) ==
  /\ Turn(k)
  /\ StillDue(k)
  /\ Instances(k.id) < templates[k.id].cap
  /\ AddFrom(templates[k.id])
  /\ Originates([template |-> k.id, slot |-> templates[k.id].next, by |-> templates[k.id].plan.kind])
  /\ templates' = [templates EXCEPT ![k.id] = Served(@)]

\* All instances in use: the slot is left out, unless it is the only one.
SkipSlot(k) ==
  /\ Turn(k)
  /\ StillDue(k)
  /\ Instances(k.id) >= templates[k.id].cap
  /\ templates' = IF templates[k.id].plan.kind = "delayed"
                  THEN templates
                  ELSE [templates EXCEPT ![k.id].next = NextRunAfterScheduledSlot(templates[k.id], at)]
  /\ UNCHANGED <<storeVars, origin>>

\* The row is no longer what was read, or the transaction fails, which
\* costs no other template its turn.
PassOver(k) ==
  /\ Turn(k)
  /\ UNCHANGED <<storeVars, templates, origin>>

Tick ==
  /\ now < MaxTime
  /\ now' = now + 1
  /\ UNCHANGED <<vars, templates, nextTemplate, origin, sched, upto, sweep, todo, at>>

\* deleteExpiredDelayed, for templates of any age.
Expired ==
  {p \in DOMAIN templates :
     /\ templates[p].plan.kind = "delayed" /\ ~templates[p].enabled /\ templates[p].ran
     /\ Instances(p) = 0}

PurgeDelayed ==
  /\ gateway = "up"
  /\ \E S \in SUBSET Expired : S # {} /\ RemoveTemplates(S)

-----------------------------------------------------------------------------
(* Together with the queue.                                                *)

\* What a step of the queue means here: the Scheduler starts before the
\* Worker and the process ends with both.
Beside ==
  /\ Originates(FromClient)
  /\ UNCHANGED <<templates, nextTemplate, now>>
  /\ sched = "init" => phase' = "idle"
  /\ IF gateway' \in {"down", "starting"}
     THEN sched' = "off" /\ upto' = 0 /\ sweep' = NoSweep /\ todo' = {} /\ at' = 0
     ELSE /\ sched' = IF sched = "off" THEN "init" ELSE sched
          /\ UNCHANGED <<upto, sweep, todo, at>>

Queue == Next /\ Beside

Work == \E k \in todo : CloneTask(k) \/ SkipSlot(k) \/ PassOver(k)

SchedulerStep == (\E p \in TemplateId : InitializeNextRunAt(p)) \/ Started \/ ReadDue \/ Work

SchedNext == Queue \/ TemplateClient \/ SchedulerStep \/ PurgeDelayed \/ Tick

SchedSpec == SchedInit /\ [][SchedNext]_allVars

\* The event loop goes on, and the Gateway is started again; time may stop.
SchedFairness ==
  /\ WF_allVars(GatewayStart /\ Beside) /\ WF_allVars(GatewayReady /\ Beside)
  /\ WF_allVars(gateway = "stopping" /\ GatewayExit /\ Beside)
  /\ WF_allVars((StartRun \/ StartFails) /\ Beside)
  /\ WF_allVars(SchedulerStep)

FairSchedSpec == SchedSpec /\ SchedFairness

-----------------------------------------------------------------------------
(* Properties.                                                             *)

\* Whatever the Scheduler does to tasks is something the queue allows:
\* nothing the queue promises is lost by adding it.
QueueKept == Spec

Scheduled(t) == origin[t].by \in Kinds

\* No task is created before the time it was scheduled for, although the
\* template may be edited, disabled, enabled or replaced between the sweep
\* and the clone (expectedNextRunAt).
NeverEarly == \A t \in DOMAIN tasks : origin[t].slot <= now

\* The repeated slots a template is served for increase: no slot is served
\* twice, through delays, edits, restarts and re-enabling.
SlotsIncrease ==
  \A t, u \in DOMAIN tasks :
     /\ origin[t].template = origin[u].template
     /\ origin[t].by \in {"cron", "recurring"} /\ origin[u].by \in {"cron", "recurring"}
     /\ t < u
     => origin[t].slot < origin[u].slot

\* Of the tasks the Scheduler created from a template, no more than
\* maxInstances may execute or still have a process, also when some were
\* cancelled in execution, failed, or were started by hand in between.
\* (Retrying a dead letter and lowering maxInstances are left to the user.)
InstancesCapped ==
  \A p \in DOMAIN templates :
     Cardinality({t \in DOMAIN tasks :
                    /\ Scheduled(t) /\ origin[t].template = p
                    /\ tasks[t].status \in {"pending", "running", "failed"} \/ OpenRuns(t) # {}})
       <= templates[p].cap

\* The two steps by which users go beyond maxInstances: a dead letter of the
\* Scheduler is taken up again, and a template gets a lower limit.
Revives ==
  \E t \in DOMAIN tasks \cap DOMAIN tasks' :
     /\ Scheduled(t)
     /\ tasks[t].status = "dead_letter" /\ tasks'[t].status \in {"pending", "running", "failed"}

LowersCap == \E p \in DOMAIN templates \cap DOMAIN templates' : templates'[p].cap < templates[p].cap

Dateable(plan) == plan.kind = "cron" => plan.every # 0

\* Once the Scheduler runs, an enabled template has a slot: none is left
\* behind that looks enabled and is never due.
NoGhosts ==
  sched = "on" =>
    \A p \in DOMAIN templates : templates[p].enabled /\ Dateable(templates[p].plan) => templates[p].next # 0

ClonedOrSkipped(k) == CloneTask(k) \/ SkipSlot(k)

\* A template that repeats keeps its phase however late a tick is, and
\* goes on with the first slot that is still ahead.
PhaseKept ==
  [][\A k \in todo : ClonedOrSkipped(k) /\ templates[k.id].plan.kind = "recurring" =>
        /\ templates'[k.id].next > at
        /\ templates'[k.id].next - templates[k.id].plan.every <= at
        /\ (templates'[k.id].next - k.slot) % templates[k.id].plan.every = 0]_allVars

\* A sweep comes to its end: nothing but a client, or its own start, adds
\* to what it has still to read, so no template can hold it up for ever.
SweepShrinks ==
  [][sweep # NoSweep /\ sweep' # NoSweep /\ ~TemplateClient => Ahead' \subseteq Ahead]_allVars

Due(p) == p \in DueBy(now)

HasTurn(p) == \E k \in todo : k.id = p /\ \A l \in todo \ {k} : Earlier(k, l)

\* Interventions a behaviour may repeat for ever.
Interrupted == TemplateClient \/ (GatewayStop /\ Beside) \/ (GatewayExit /\ Beside)

\* Every due template gets a turn, however many others are due, fail each
\* time, or are due again and again.
TakesTurns ==
  \/ []<><<Interrupted>>_allVars
  \/ \A p \in TemplateId : Due(p) ~> ~Due(p) \/ HasTurn(p)
=============================================================================
