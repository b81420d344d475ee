--------------------------- MODULE SchedulerProofs ---------------------------
(* Theorems about Scheduler, for every value of its constants.             *)
EXTENDS Scheduler, QueueHistoryProofs

-----------------------------------------------------------------------------
(* When a template is due next.                                            *)

Repeating == {"cron", "recurring"}

\* A calculated slot lies ahead of the time it is calculated from, and is
\* missing only for an expression that names no time.
LEMMA CalculatedSlot ==
  ASSUME NEW plan \in Plan, NEW after \in Nat
  PROVE  /\ CalculateNextRunAt(plan, after) \in Nat
         /\ Dateable(plan) => CalculateNextRunAt(plan, after) # 0
         /\ plan.kind \in Repeating =>
               CalculateNextRunAt(plan, after) = 0 \/ CalculateNextRunAt(plan, after) > after
<1> DEFINE every == plan.every
<1>1. every \in Nat /\ plan.runAt \in Nat /\ plan.kind \in Kinds
  BY DEF Plan
<1>2. CASE plan.kind = "cron"
  <2>1. CalculateNextRunAt(plan, after) = NextCronRun(every, after)
    BY <1>2 DEF CalculateNextRunAt
  <2>2. CASE every = 0
    BY <1>2, <2>1, <2>2 DEF NextCronRun, Dateable
  <2>3. CASE every # 0
    <3>1. /\ (after \div every + 1) * every \in Nat
          /\ (after \div every + 1) * every > after
      BY <1>1, <2>3
    <3> QED BY <2>1, <2>3, <3>1 DEF NextCronRun
  <2> QED BY <2>2, <2>3
<1>3. CASE plan.kind = "recurring"
  <2>1. CalculateNextRunAt(plan, after) = after + every
    BY <1>3 DEF CalculateNextRunAt
  <2>2. every # 0
    BY <1>3 DEF Plan
  <2> QED BY <1>1, <2>1, <2>2
<1>4. CASE plan.kind = "delayed"
  <2>1. CalculateNextRunAt(plan, after) = plan.runAt
    BY <1>4 DEF CalculateNextRunAt
  <2>2. plan.runAt # 0
    BY <1>4 DEF Plan
  <2> QED BY <1>1, <1>4, <2>1, <2>2 DEF Repeating
<1> QED BY <1>1, <1>2, <1>3, <1>4 DEF Kinds

\* The same of the slot after one that was served or skipped, however late.
LEMMA FollowingSlot ==
  ASSUME NEW row \in TemplateRow, NEW after \in Nat
  PROVE  /\ NextRunAfterScheduledSlot(row, after) \in Nat
         /\ Dateable(row.plan) => NextRunAfterScheduledSlot(row, after) # 0
         /\ row.plan.kind \in Repeating =>
               \/ NextRunAfterScheduledSlot(row, after) = 0
               \/ NextRunAfterScheduledSlot(row, after) > after
<1> DEFINE every == row.plan.every
           due == row.plan.kind = "recurring" /\ row.next # 0 /\ row.next <= after
<1>1. row.plan \in Plan /\ row.next \in Nat
  BY DEF TemplateRow
<1>2. CASE due
  <2> DEFINE late == after - row.next
  <2>1. every \in Nat /\ every # 0 /\ late \in Nat
    BY <1>1, <1>2 DEF Plan
  <2>2. (late \div every + 1) * every \in Nat /\ (late \div every + 1) * every > late
    BY <2>1
  <2>3. NextRunAfterScheduledSlot(row, after) = row.next + (late \div every + 1) * every
    BY <1>2 DEF NextRunAfterScheduledSlot
  <2> HIDE DEF late
  <2>4. row.next + (late \div every + 1) * every > row.next + late
    BY <1>1, <2>1, <2>2
  <2>5. row.next + late = after
    BY <1>1 DEF late
  <2> QED BY <1>1, <2>1, <2>2, <2>3, <2>4, <2>5
<1>3. CASE ~due
  <2>1. NextRunAfterScheduledSlot(row, after) = CalculateNextRunAt(row.plan, after)
    BY <1>3 DEF NextRunAfterScheduledSlot
  <2> QED BY <1>1, <2>1, CalculatedSlot
<1> QED BY <1>2, <1>3

-----------------------------------------------------------------------------
(* The Scheduler only does to the queue what clients may do.               *)

LEMMA AddFromKept ==
  ASSUME SchedTypeOK, NEW p \in DOMAIN templates, AddFrom(templates[p]), UNCHANGED queueVars
  PROVE  Client
<1>1. templates[p].job \in Job
  BY DEF SchedTypeOK, TemplateRow
<1>2. /\ templates[p].job.batch \in Batches \cup {NoBatch}
      /\ templates[p].job.cwd \in Cwds
      /\ templates[p].job.prio \in Prios
      /\ templates[p].job.limit \in RetryLimits
  BY <1>1 DEF Job
<1>3. ClientAdd
  BY <1>2 DEF ClientAdd, AddFrom
<1> QED BY <1>3 DEF Client

LEMMA ClientOfTemplatesKept ==
  ASSUME SchedTypeOK, TemplateClient
  PROVE  [Next]_vars
<1>1. CASE \E plan \in Plans, job \in Jobs, cap \in Caps : CreateTemplate(plan, job, cap)
  BY <1>1 DEF CreateTemplate
<1>2. ASSUME NEW p \in DOMAIN templates, TriggerTemplate(p)
      PROVE  [Next]_vars
  BY <1>2, AddFromKept DEF TriggerTemplate, Next
<1>3. ASSUME NEW p \in DOMAIN templates,
             \/ \E plan \in Plans, job \in Jobs, cap \in Caps : UpdateTemplate(p, plan, job, cap)
             \/ EnableTemplate(p) \/ DisableTemplate(p) \/ RemoveTemplates({p})
      PROVE  [Next]_vars
  BY <1>3 DEF UpdateTemplate, EnableTemplate, DisableTemplate, RemoveTemplates, WriteTemplate
<1> QED BY <1>1, <1>2, <1>3 DEF TemplateClient

LEMMA WorkKept ==
  ASSUME SchedTypeOK, Work
  PROVE  [Next]_vars
<1>1. PICK k \in todo : CloneTask(k) \/ SkipSlot(k) \/ PassOver(k)
  BY DEF Work
<1>2. CASE CloneTask(k)
  BY <1>2, AddFromKept DEF CloneTask, Turn, StillDue, Next
<1>3. CASE SkipSlot(k) \/ PassOver(k)
  BY <1>3 DEF SkipSlot, PassOver, Turn, vars, queueVars, storeVars
<1> QED BY <1>1, <1>2, <1>3

LEMMA StepKept ==
  ASSUME SchedTypeOK, [SchedNext]_allVars
  PROVE  [Next]_vars
<1>1. CASE UNCHANGED allVars
  BY <1>1 DEF allVars
<1>2. CASE Queue
  BY <1>2 DEF Queue
<1>3. CASE TemplateClient
  BY <1>3, ClientOfTemplatesKept
<1>4. CASE SchedulerStep
  BY <1>4, WorkKept DEF SchedulerStep, InitializeNextRunAt, Started, ReadDue
<1>5. CASE PurgeDelayed \/ Tick
  BY <1>5 DEF PurgeDelayed, RemoveTemplates, Tick
<1> QED BY <1>1, <1>2, <1>3, <1>4, <1>5 DEF SchedNext

-----------------------------------------------------------------------------
(* The invariant.                                                          *)

\* What was read lies in the past, and was read before it is cloned; only
\* a running Scheduler is in the middle of a sweep.
ClockOK ==
  /\ at <= now
  /\ sweep.cutoff <= now
  /\ todo # {} => sweep.cutoff <= at
  /\ sched # "on" => sweep = NoSweep
  /\ \A k \in todo : k.slot # 0 /\ k.slot <= at

\* Ids below the counter, also those of deleted templates.
KnownOK ==
  /\ \A p \in DOMAIN templates : p < nextTemplate
  /\ \A t \in DOMAIN tasks : origin[t].template < nextTemplate

\* The next slot of a template that repeats is later than all it was served for.
AheadOK ==
  \A t \in DOMAIN tasks, p \in DOMAIN templates :
     /\ origin[t].template = p /\ origin[t].by \in Repeating
     /\ templates[p].plan.kind \in Repeating /\ templates[p].next # 0
     => origin[t].slot < templates[p].next

\* Ghosts have ids initializeTemplates has not come to.
DatedOK ==
  /\ sched = "off" => upto = 0
  /\ \A p \in DOMAIN templates :
        templates[p].enabled /\ templates[p].next = 0 /\ Dateable(templates[p].plan) =>
           sched = "off" \/ (sched = "init" /\ p > upto)

SInv == SchedTypeOK /\ ClockOK /\ NeverEarly /\ SlotsIncrease /\ KnownOK /\ AheadOK /\ DatedOK

\* A row written over another: its slot is calculated anew from the current
\* time, or the plan goes on and the slot does not go back.
Rewritten(p, row) ==
  /\ row \in TemplateRow
  /\ \/ row.plan.kind \in Repeating /\ row.next # 0 => row.next > now
     \/ row.plan = templates[p].plan /\ templates[p].next # 0 /\ row.next >= templates[p].next

LEMMA RewriteStep ==
  ASSUME SInv, NEW p \in DOMAIN templates, NEW row, Rewritten(p, row),
         templates' = [templates EXCEPT ![p] = row]
  PROVE  /\ DOMAIN templates' = DOMAIN templates
         /\ templates' \in [DOMAIN templates -> TemplateRow]
         /\ \A t \in DOMAIN tasks, q \in DOMAIN templates :
               /\ origin[t].template = q /\ origin[t].by \in Repeating
               /\ templates'[q].plan.kind \in Repeating /\ templates'[q].next # 0
               => origin[t].slot < templates'[q].next
<1>1. DOMAIN templates' = DOMAIN templates /\ templates' \in [DOMAIN templates -> TemplateRow]
  BY DEF SInv, SchedTypeOK, Rewritten
<1>2. ASSUME NEW t \in DOMAIN tasks, NEW q \in DOMAIN templates,
             origin[t].template = q, origin[t].by \in Repeating,
             templates'[q].plan.kind \in Repeating, templates'[q].next # 0
      PROVE  origin[t].slot < templates'[q].next
  <2>1. CASE q # p
    BY <1>2, <2>1 DEF SInv, AheadOK
  <2>2. CASE q = p
    <3>1. templates'[q] = row
      BY <2>2
    <3>2. origin[t].slot \in Nat /\ origin[t].slot <= now /\ now \in Nat
      BY DEF SInv, SchedTypeOK, Origin, NeverEarly
    <3>3. row.next \in Nat /\ templates[p].next \in Nat
      BY DEF SInv, SchedTypeOK, TemplateRow, Rewritten
    <3>4. CASE row.next > now
      BY <3>1, <3>2, <3>3, <3>4
    <3>5. CASE row.plan = templates[p].plan /\ templates[p].next # 0 /\ row.next >= templates[p].next
      <4>1. origin[t].slot < templates[p].next
        BY <1>2, <2>2, <3>1, <3>5 DEF SInv, AheadOK
      <4> QED BY <3>1, <3>2, <3>3, <3>5, <4>1
    <3> QED BY <1>2, <3>1, <3>4, <3>5 DEF Rewritten
  <2> QED BY <2>1, <2>2
<1> QED BY <1>1, <1>2

\* A step that leaves tasks and the Scheduler's memory alone.
LEMMA TemplatesOnly ==
  ASSUME SInv, UNCHANGED <<vars, nextTemplate, origin>>, SchedulerIdles,
         DOMAIN templates' \subseteq DOMAIN templates,
         templates' \in [DOMAIN templates' -> TemplateRow],
         AheadOK', DatedOK'
  PROVE  SInv'
<1>1. SchedTypeOK'
  <2>1. TypeOK'
    BY DEF SInv, SchedTypeOK, TypeOK, StoreTypeOK, vars
  <2> QED BY <2>1 DEF SInv, SchedTypeOK, SchedulerIdles, vars
<1>2. ClockOK' /\ NeverEarly' /\ SlotsIncrease' /\ KnownOK'
  BY DEF SInv, ClockOK, NeverEarly, SlotsIncrease, KnownOK, SchedulerIdles, vars
<1> QED BY <1>1, <1>2 DEF SInv

LEMMA WriteInv ==
  ASSUME SInv, NEW p \in DOMAIN templates, NEW row, Rewritten(p, row), WriteTemplate(p, row),
         row.enabled /\ row.next = 0 => ~Dateable(row.plan) \/ (templates[p].enabled /\ templates[p] = row)
  PROVE  SInv'
<1>1. /\ DOMAIN templates' = DOMAIN templates
      /\ templates' \in [DOMAIN templates -> TemplateRow]
      /\ AheadOK'
  BY RewriteStep DEF WriteTemplate, AheadOK, vars
<1>2. DatedOK'
  <2> SUFFICES ASSUME NEW q \in DOMAIN templates,
                      templates'[q].enabled, templates'[q].next = 0, Dateable(templates'[q].plan)
               PROVE  sched = "off" \/ (sched = "init" /\ q > upto)
    BY <1>1 DEF SInv, DatedOK, WriteTemplate, SchedulerIdles
  <2>1. templates'[q] = templates[q]
    BY DEF WriteTemplate
  <2> QED BY <2>1 DEF SInv, DatedOK
<1> QED BY <1>1, <1>2, TemplatesOnly DEF WriteTemplate

LEMMA RemoveTemplatesInv ==
  ASSUME SInv, NEW S, RemoveTemplates(S)
  PROVE  SInv'
<1>1. /\ DOMAIN templates' \subseteq DOMAIN templates
      /\ templates' \in [DOMAIN templates' -> TemplateRow]
      /\ \A q \in DOMAIN templates' : templates'[q] = templates[q]
  BY DEF RemoveTemplates, SInv, SchedTypeOK
<1>2. AheadOK' /\ DatedOK'
  BY <1>1 DEF RemoveTemplates, SInv, AheadOK, DatedOK, SchedulerIdles, vars
<1> QED BY <1>1, <1>2, TemplatesOnly DEF RemoveTemplates

-----------------------------------------------------------------------------
(* Clients of the templates.                                               *)

LEMMA EditInv ==
  ASSUME SInv, NEW p \in DOMAIN templates,
         \/ \E plan \in Plans, job \in Jobs, cap \in Caps : UpdateTemplate(p, plan, job, cap)
         \/ EnableTemplate(p) \/ DisableTemplate(p)
  PROVE  SInv'
<1>1. /\ templates[p] \in TemplateRow
      /\ templates[p].plan \in Plan /\ templates[p].next \in Nat
      /\ now \in Nat
  BY DEF SInv, SchedTypeOK, TemplateRow
<1>2. ASSUME NEW plan \in Plans, NEW job \in Jobs, NEW cap \in Caps, UpdateTemplate(p, plan, job, cap)
      PROVE  SInv'
  <2> DEFINE slot == CalculateNextRunAt(plan, now)
             row == [templates[p] EXCEPT !.plan = plan, !.job = job, !.cap = cap, !.next = slot]
  <2>1. plan \in Plan /\ job \in Job /\ cap \in Nat
    BY SchedulerConstants
  <2>2. /\ slot \in Nat
        /\ Dateable(plan) => slot # 0
        /\ plan.kind \in Repeating => slot = 0 \/ slot > now
    BY <1>1, <2>1, CalculatedSlot
  <2>3. WriteTemplate(p, row)
    BY <1>2 DEF UpdateTemplate
  <2> HIDE DEF slot
  <2>4. row \in TemplateRow /\ row.plan = plan /\ row.next = slot
    BY <1>1, <2>1, <2>2 DEF TemplateRow
  <2> HIDE DEF row
  <2>5. Rewritten(p, row)
    BY <2>2, <2>4 DEF Rewritten
  <2> QED BY <2>2, <2>3, <2>4, <2>5, WriteInv
<1>3. CASE EnableTemplate(p)
  <2> DEFINE slot == EnabledSlot(templates[p])
             row == [templates[p] EXCEPT !.enabled = TRUE, !.next = slot]
  <2>1. slot # 0 /\ WriteTemplate(p, row)
    BY <1>3 DEF EnableTemplate
  <2>2. slot \in Nat /\ (templates[p].plan.kind \in Repeating => slot > now)
    <3>1. templates[p].plan.kind \in Repeating => templates[p].plan.kind # "delayed"
      BY DEF Repeating
    <3>2. CASE slot = templates[p].next /\ ~(templates[p].next <= now /\ templates[p].plan.kind # "delayed")
      BY <1>1, <3>1, <3>2
    <3>3. CASE slot = CalculateNextRunAt(templates[p].plan, now)
      BY <1>1, <2>1, <3>3, CalculatedSlot
    <3> QED BY <3>2, <3>3 DEF EnabledSlot
  <2> HIDE DEF slot
  <2>3. row \in TemplateRow /\ row.plan = templates[p].plan /\ row.next = slot
    BY <1>1, <2>2 DEF TemplateRow
  <2> HIDE DEF row
  <2>4. Rewritten(p, row)
    BY <2>2, <2>3 DEF Rewritten
  <2> QED BY <2>1, <2>3, <2>4, WriteInv
<1>4. CASE DisableTemplate(p)
  <2> DEFINE row == [templates[p] EXCEPT !.enabled = FALSE]
  <2>1. /\ row \in TemplateRow /\ ~row.enabled
        /\ row.plan = templates[p].plan /\ row.next = templates[p].next
    BY <1>1 DEF TemplateRow
  <2>2. WriteTemplate(p, row)
    BY <1>4 DEF DisableTemplate
  <2> HIDE DEF row
  <2>3. Rewritten(p, row)
    BY <1>1, <2>1 DEF Rewritten
  <2> QED BY <2>1, <2>2, <2>3, WriteInv
<1> QED BY <1>2, <1>3, <1>4

LEMMA CreateInv ==
  ASSUME SInv, NEW plan \in Plans, NEW job \in Jobs, NEW cap \in Caps, CreateTemplate(plan, job, cap)
  PROVE  SInv'
<1> DEFINE slot == CalculateNextRunAt(plan, now)
           row == [plan |-> plan, job |-> job, cap |-> cap, enabled |-> TRUE,
                   next |-> slot, ran |-> FALSE]
<1>1. plan \in Plan /\ job \in Job /\ cap \in Nat /\ now \in Nat
  BY SchedulerConstants DEF SInv, SchedTypeOK
<1>2. slot \in Nat /\ (Dateable(plan) => slot # 0)
  BY <1>1, CalculatedSlot
<1>3. /\ nextTemplate <= MaxTemplates /\ nextTemplate' = nextTemplate + 1
      /\ templates' = [p \in DOMAIN templates \cup {nextTemplate} |->
                         IF p = nextTemplate THEN row ELSE templates[p]]
      /\ UNCHANGED <<vars, origin>> /\ SchedulerIdles
  BY DEF CreateTemplate
<1> HIDE DEF slot
<1>4. row \in TemplateRow /\ row.next = slot /\ row.plan = plan
  BY <1>1, <1>2 DEF TemplateRow
<1> HIDE DEF row
<1>5. nextTemplate \in TemplateId /\ nextTemplate \notin DOMAIN templates
  BY <1>3, SchedulerConstants DEF SInv, SchedTypeOK, KnownOK, TemplateId
<1>6. /\ DOMAIN templates' = DOMAIN templates \cup {nextTemplate}
      /\ templates'[nextTemplate] = row
      /\ \A p \in DOMAIN templates : templates'[p] = templates[p]
  BY <1>3, <1>5
<1>7. SchedTypeOK'
  <2>1. TypeOK'
    BY <1>3 DEF SInv, SchedTypeOK, TypeOK, StoreTypeOK, vars
  <2>2. /\ DOMAIN templates' \subseteq TemplateId
        /\ templates' \in [DOMAIN templates' -> TemplateRow]
        /\ nextTemplate' \in 1 .. MaxTemplates + 1
    BY <1>3, <1>4, <1>5, SchedulerConstants DEF SInv, SchedTypeOK, TemplateId
  <2> QED BY <1>3, <2>1, <2>2 DEF SInv, SchedTypeOK, SchedulerIdles, vars
<1>8. ClockOK' /\ NeverEarly' /\ SlotsIncrease'
  BY <1>3 DEF SInv, ClockOK, NeverEarly, SlotsIncrease, SchedulerIdles, vars
<1>9. KnownOK'
  <2>1. \A t \in DOMAIN tasks : origin[t].template \in Nat
    BY SchedulerConstants DEF SInv, SchedTypeOK, Origin, TemplateId
  <2>2. DOMAIN templates \subseteq Nat /\ nextTemplate \in Nat
    BY SchedulerConstants DEF SInv, SchedTypeOK, TemplateId
  <2> QED BY <1>3, <1>6, <2>1, <2>2 DEF SInv, KnownOK, vars
<1>10. AheadOK'
  <2>1. \A t \in DOMAIN tasks : origin[t].template # nextTemplate
    BY SchedulerConstants DEF SInv, SchedTypeOK, KnownOK, Origin, TemplateId
  <2> QED BY <1>3, <1>6, <2>1 DEF SInv, AheadOK, vars
<1>11. DatedOK'
  BY <1>2, <1>3, <1>4, <1>6 DEF SInv, DatedOK, SchedulerIdles
<1> QED BY <1>7, <1>8, <1>9, <1>10, <1>11 DEF SInv

-----------------------------------------------------------------------------
(* Tasks created from a template.                                          *)

\* What an added task and its origin leave of the tasks there were.
LEMMA AddedTask ==
  ASSUME SInv, IInv, NEW p \in DOMAIN templates, AddFrom(templates[p]), UNCHANGED queueVars,
         NEW slot \in Nat, NEW by \in Kinds \cup {"client", "trigger"},
         Originates([template |-> p, slot |-> slot, by |-> by])
  PROVE  /\ TypeOK'
         /\ DOMAIN tasks' = DOMAIN tasks \cup {nextTask}
         /\ \A t \in DOMAIN tasks : origin'[t] = origin[t] /\ t < nextTask
         /\ origin'[nextTask] = [template |-> p, slot |-> slot, by |-> by]
         /\ origin' \in [DOMAIN tasks' -> Origin]
         /\ nextTask \in Nat
<1>1. Client
  BY AddFromKept DEF SInv
<1>2. TypeOK'
  BY <1>1, TypeNext DEF SInv, SchedTypeOK, Next
<1>3. DOMAIN tasks' = DOMAIN tasks \cup {nextTask}
  BY DEF AddFrom, Add
<1>4. nextTask \in Nat /\ \A t \in DOMAIN tasks : t < nextTask /\ t \in Nat
  BY StoreConstants DEF IInv, TypeOK, StoreTypeOK, RunsOK, TaskId
<1>5. nextTask \notin DOMAIN tasks
  BY <1>4
<1>6. p \in TemplateId
  BY DEF SInv, SchedTypeOK
<1>7. [template |-> p, slot |-> slot, by |-> by] \in Origin
  BY <1>6 DEF Origin
<1>8. /\ \A t \in DOMAIN tasks : origin'[t] = origin[t]
      /\ origin'[nextTask] = [template |-> p, slot |-> slot, by |-> by]
      /\ origin' \in [DOMAIN tasks' -> Origin]
  BY <1>3, <1>5, <1>7 DEF Originates, SInv, SchedTypeOK
<1> QED BY <1>2, <1>3, <1>4, <1>8

LEMMA TriggerInv ==
  ASSUME SInv, IInv, NEW p \in DOMAIN templates, TriggerTemplate(p)
  PROVE  SInv'
<1> DEFINE new == [template |-> p, slot |-> now, by |-> "trigger"]
<1>1. /\ AddFrom(templates[p]) /\ Originates(new)
      /\ UNCHANGED <<queueVars, templates, nextTemplate>> /\ SchedulerIdles
  BY DEF TriggerTemplate
<1>2. now \in Nat
  BY DEF SInv, SchedTypeOK
<1>3. /\ TypeOK'
      /\ DOMAIN tasks' = DOMAIN tasks \cup {nextTask}
      /\ \A t \in DOMAIN tasks : origin'[t] = origin[t]
      /\ origin'[nextTask] = new
      /\ origin' \in [DOMAIN tasks' -> Origin]
  BY <1>1, <1>2, AddedTask
<1>4. new.template = p /\ new.slot = now /\ new.by = "trigger" /\ "trigger" \notin Repeating
  BY DEF Repeating
<1> HIDE DEF new
<1>5. SchedTypeOK'
  BY <1>1, <1>3 DEF SInv, SchedTypeOK, SchedulerIdles
<1>6. ClockOK' /\ DatedOK'
  BY <1>1 DEF SInv, ClockOK, DatedOK, SchedulerIdles
<1>7. NeverEarly'
  BY <1>1, <1>2, <1>3, <1>4 DEF SInv, NeverEarly, SchedulerIdles
<1>8. SlotsIncrease'
  BY <1>3, <1>4 DEF SInv, SlotsIncrease, Repeating
<1>9. KnownOK' /\ AheadOK'
  BY <1>1, <1>3, <1>4 DEF SInv, KnownOK, AheadOK
<1> QED BY <1>5, <1>6, <1>7, <1>8, <1>9 DEF SInv

-----------------------------------------------------------------------------
(* The Scheduler.                                                          *)

\* What a turn leaves of the page lies in the past.
LEMMA TurnClock ==
  ASSUME SInv, NEW k \in todo, Turn(k)
  PROVE  ClockOK' /\ todo' \in SUBSET Key /\ at' \in Nat
<1>1. /\ todo' = todo \ {k} /\ at' \in {0, now} /\ (todo' # {} => at' = now)
      /\ UNCHANGED <<now, sweep, sched>>
  BY DEF Turn
<1>2. /\ now \in Nat /\ at \in Nat /\ at <= now /\ sweep.cutoff <= now /\ todo \in SUBSET Key
      /\ sched # "on" => sweep = NoSweep
  BY DEF SInv, SchedTypeOK, ClockOK
<1>3. \A l \in todo : l.slot \in Nat /\ l.slot # 0 /\ l.slot <= now
  BY <1>2 DEF SInv, ClockOK, Key
<1> QED BY <1>1, <1>2, <1>3 DEF ClockOK

\* The row of a template whose slot was served or skipped.
LEMMA AdvancedRow ==
  ASSUME SInv, NEW k \in todo, StillDue(k)
  PROVE  LET row == templates[k.id]
             slot == NextRunAfterScheduledSlot(row, at)
         IN /\ k.id \in DOMAIN templates /\ row \in TemplateRow /\ row.enabled
            /\ k.slot = row.next /\ row.next # 0 /\ row.next <= now
            /\ slot \in Nat /\ (Dateable(row.plan) => slot # 0)
            /\ row.plan.kind \in Repeating => slot = 0 \/ slot > row.next
<1> DEFINE row == templates[k.id]
           slot == NextRunAfterScheduledSlot(row, at)
<1>1. k.id \in DOMAIN templates /\ row.enabled /\ row.next = k.slot
  BY DEF StillDue
<1>2. row \in TemplateRow /\ row.next \in Nat /\ at \in Nat /\ now \in Nat
  BY <1>1 DEF SInv, SchedTypeOK, TemplateRow
<1>3. k.slot # 0 /\ k.slot <= at /\ at <= now
  BY DEF SInv, ClockOK
<1>4. /\ slot \in Nat /\ (Dateable(row.plan) => slot # 0)
      /\ row.plan.kind \in Repeating => slot = 0 \/ slot > at
  BY <1>2, FollowingSlot
<1> HIDE DEF slot
<1>5. row.next <= now /\ (row.plan.kind \in Repeating => slot = 0 \/ slot > row.next)
  BY <1>1, <1>2, <1>3, <1>4
<1> QED BY <1>1, <1>2, <1>3, <1>4, <1>5 DEF slot

LEMMA SkipInv ==
  ASSUME SInv, NEW k \in todo, SkipSlot(k) \/ PassOver(k)
  PROVE  SInv'
<1>1. Turn(k) /\ UNCHANGED <<storeVars, origin>>
  BY DEF SkipSlot, PassOver
<1>2. ClockOK' /\ todo' \in SUBSET Key /\ at' \in Nat
  BY <1>1, TurnClock
<1>3. UNCHANGED <<vars, nextTemplate, origin, now, sched, upto, sweep>>
  BY <1>1 DEF Turn, vars, storeVars, queueVars
<1>4. /\ DOMAIN templates' = DOMAIN templates
      /\ templates' \in [DOMAIN templates -> TemplateRow]
      /\ AheadOK' /\ DatedOK'
  <2>1. CASE UNCHANGED templates
    BY <1>3, <2>1 DEF SInv, SchedTypeOK, AheadOK, DatedOK, vars
  <2>2. CASE ~UNCHANGED templates
    <3> DEFINE slot == NextRunAfterScheduledSlot(templates[k.id], at)
               row == [templates[k.id] EXCEPT !.next = slot]
    <3>1. StillDue(k) /\ templates' = [templates EXCEPT ![k.id] = row]
      BY <2>2 DEF SkipSlot, PassOver
    <3>2. /\ k.id \in DOMAIN templates /\ templates[k.id] \in TemplateRow
          /\ templates[k.id].next # 0 /\ templates[k.id].next \in Nat
          /\ slot \in Nat /\ (Dateable(templates[k.id].plan) => slot # 0)
          /\ templates[k.id].plan.kind \in Repeating => slot = 0 \/ slot > templates[k.id].next
      BY <3>1, AdvancedRow DEF TemplateRow
    <3> HIDE DEF slot
    <3>3. row \in TemplateRow /\ row.plan = templates[k.id].plan /\ row.next = slot
      BY <3>2 DEF TemplateRow
    <3> HIDE DEF row
    <3>4. Rewritten(k.id, row)
      BY <3>2, <3>3 DEF Rewritten
    <3>5. /\ DOMAIN templates' = DOMAIN templates
          /\ templates' \in [DOMAIN templates -> TemplateRow]
          /\ AheadOK'
      BY <1>3, <3>1, <3>2, <3>4, RewriteStep DEF AheadOK, vars
    <3>6. DatedOK'
      BY <1>3, <3>1, <3>2, <3>3, <3>5 DEF SInv, DatedOK
    <3> QED BY <3>5, <3>6
  <2> QED BY <2>1, <2>2
<1>5. SchedTypeOK'
  <2>1. TypeOK'
    BY <1>3 DEF SInv, SchedTypeOK, TypeOK, StoreTypeOK, vars
  <2> QED BY <1>2, <1>3, <1>4, <2>1 DEF SInv, SchedTypeOK, vars
<1>6. NeverEarly' /\ SlotsIncrease' /\ KnownOK'
  BY <1>3, <1>4 DEF SInv, NeverEarly, SlotsIncrease, KnownOK, vars
<1> QED BY <1>2, <1>4, <1>5, <1>6 DEF SInv

LEMMA CloneInv ==
  ASSUME SInv, IInv, NEW k \in todo, CloneTask(k)
  PROVE  SInv'
<1> DEFINE old == templates[k.id]
           slot == NextRunAfterScheduledSlot(old, at)
           row == Served(old)
<1>1. /\ Turn(k) /\ StillDue(k) /\ AddFrom(old)
      /\ Originates([template |-> k.id, slot |-> old.next, by |-> old.plan.kind])
      /\ templates' = [templates EXCEPT ![k.id] = row]
  BY DEF CloneTask
<1>2. UNCHANGED <<queueVars, nextTemplate, now, sched, upto, sweep>>
  BY <1>1 DEF Turn
<1>3. ClockOK' /\ todo' \in SUBSET Key /\ at' \in Nat
  BY <1>1, TurnClock
<1>4. /\ k.id \in DOMAIN templates /\ old \in TemplateRow /\ old.enabled
      /\ old.next # 0 /\ old.next <= now
      /\ slot \in Nat /\ (Dateable(old.plan) => slot # 0)
      /\ old.plan.kind \in Repeating => slot = 0 \/ slot > old.next
  BY <1>1, AdvancedRow
<1>5. old.next \in Nat /\ old.plan.kind \in Kinds /\ old.plan \in Plan
  BY <1>4 DEF TemplateRow, Plan
<1>6. /\ row \in TemplateRow /\ row.plan = old.plan
      /\ old.plan.kind = "delayed" => row.next = 0 /\ ~row.enabled
      /\ old.plan.kind # "delayed" => row.next = slot
  <2> HIDE DEF slot, row, old
  <2>1. CASE old.plan.kind = "delayed"
    <3>1. row = [old EXCEPT !.ran = TRUE, !.next = 0, !.enabled = FALSE]
      BY <2>1 DEF Served, row
    <3> QED BY <1>4, <2>1, <3>1 DEF TemplateRow
  <2>2. CASE old.plan.kind # "delayed"
    <3>1. row = [old EXCEPT !.ran = TRUE, !.next = slot]
      BY <2>2 DEF Served, slot, row
    <3> QED BY <1>4, <2>2, <3>1 DEF TemplateRow
  <2> QED BY <2>1, <2>2
<1> DEFINE new == [template |-> k.id, slot |-> old.next, by |-> old.plan.kind]
<1>7. /\ TypeOK'
      /\ DOMAIN tasks' = DOMAIN tasks \cup {nextTask}
      /\ \A t \in DOMAIN tasks : origin'[t] = origin[t] /\ t < nextTask
      /\ origin'[nextTask] = new
      /\ origin' \in [DOMAIN tasks' -> Origin]
      /\ nextTask \in Nat
  BY <1>1, <1>2, <1>4, <1>5, AddedTask
<1>8. DOMAIN tasks \subseteq Nat
  BY DEF IInv, TypeOK, StoreTypeOK, TaskId
<1>9. new.template = k.id /\ new.slot = old.next /\ new.by = old.plan.kind
  OBVIOUS
<1> HIDE DEF new, row, slot
<1>10. Rewritten(k.id, row)
  BY <1>4, <1>5, <1>6 DEF Rewritten, Repeating
<1>11. /\ DOMAIN templates' = DOMAIN templates
       /\ templates' \in [DOMAIN templates -> TemplateRow]
       /\ \A t \in DOMAIN tasks, q \in DOMAIN templates :
             /\ origin[t].template = q /\ origin[t].by \in Repeating
             /\ templates'[q].plan.kind \in Repeating /\ templates'[q].next # 0
             => origin[t].slot < templates'[q].next
       /\ templates'[k.id] = row
       /\ \A q \in DOMAIN templates \ {k.id} : templates'[q] = templates[q]
  BY <1>1, <1>4, <1>10, RewriteStep
<1> HIDE DEF old
<1>12. SchedTypeOK'
  BY <1>2, <1>3, <1>7, <1>11 DEF SInv, SchedTypeOK
<1>13. NeverEarly'
  BY <1>2, <1>4, <1>7, <1>9 DEF SInv, NeverEarly
<1>14. SlotsIncrease'
  <2>1. \A t \in DOMAIN tasks :
           origin[t].template = k.id /\ origin[t].by \in Repeating /\ old.plan.kind \in Repeating
           => origin[t].slot < old.next
    BY <1>4 DEF SInv, AheadOK, old
  <2> SUFFICES ASSUME NEW t \in DOMAIN tasks', NEW u \in DOMAIN tasks',
                      origin'[t].template = origin'[u].template,
                      origin'[t].by \in Repeating, origin'[u].by \in Repeating, t < u
               PROVE  origin'[t].slot < origin'[u].slot
    BY DEF SlotsIncrease, Repeating
  <2>2. CASE u \in DOMAIN tasks
    <3>1. t \in DOMAIN tasks
      BY <1>7, <1>8, <2>2
    <3> QED BY <1>7, <2>2, <3>1 DEF SInv, SlotsIncrease, Repeating
  <2>3. CASE u = nextTask
    <3>1. t \in DOMAIN tasks
      BY <1>7, <2>3
    <3> QED BY <1>7, <1>9, <2>1, <2>3, <3>1
  <2> QED BY <1>7, <2>2, <2>3
<1>15. KnownOK'
  BY <1>2, <1>4, <1>7, <1>9, <1>11 DEF SInv, KnownOK
<1>16. AheadOK'
  <2> SUFFICES ASSUME NEW t \in DOMAIN tasks', NEW q \in DOMAIN templates',
                      origin'[t].template = q, origin'[t].by \in Repeating,
                      templates'[q].plan.kind \in Repeating, templates'[q].next # 0
               PROVE  origin'[t].slot < templates'[q].next
    BY DEF AheadOK
  <2>1. CASE t \in DOMAIN tasks
    BY <1>7, <1>11, <2>1
  <2>2. CASE t = nextTask
    <3>1. q = k.id /\ origin'[t].slot = old.next /\ templates'[q] = row
      BY <1>7, <1>9, <1>11, <2>2
    <3>2. row.next = slot /\ slot > old.next
      BY <1>4, <1>6, <3>1 DEF Repeating
    <3> QED BY <1>4, <1>5, <3>1, <3>2
  <2> QED BY <1>7, <2>1, <2>2
<1>17. DatedOK'
  BY <1>2, <1>4, <1>6, <1>11 DEF SInv, DatedOK
<1> QED BY <1>3, <1>12, <1>13, <1>14, <1>15, <1>16, <1>17 DEF SInv

LEMMA InitializeInv ==
  ASSUME SInv, NEW p \in TemplateId, InitializeNextRunAt(p)
  PROVE  SInv'
<1> DEFINE slot == CalculateNextRunAt(templates[p].plan, now)
           row == [templates[p] EXCEPT !.next = slot]
<1>1. /\ sched = "init" /\ p \in Undated /\ p > upto
      /\ \A q \in Undated : q > upto => p <= q
      /\ templates' = [templates EXCEPT ![p] = row]
      /\ upto' = p
      /\ UNCHANGED <<vars, nextTemplate, origin, now, sched, sweep, todo, at>>
  BY DEF InitializeNextRunAt
<1>2. /\ p \in DOMAIN templates /\ templates[p] \in TemplateRow
      /\ templates[p].plan \in Plan /\ now \in Nat
  BY <1>1 DEF SInv, SchedTypeOK, Undated, TemplateRow
<1>3. /\ slot \in Nat /\ (Dateable(templates[p].plan) => slot # 0)
      /\ templates[p].plan.kind \in Repeating => slot = 0 \/ slot > now
  BY <1>2, CalculatedSlot
<1> HIDE DEF slot
<1>4. row \in TemplateRow /\ row.plan = templates[p].plan /\ row.next = slot
  BY <1>2, <1>3 DEF TemplateRow
<1> HIDE DEF row
<1>5. Rewritten(p, row)
  BY <1>3, <1>4 DEF Rewritten
<1>6. /\ DOMAIN templates' = DOMAIN templates
      /\ templates' \in [DOMAIN templates -> TemplateRow]
      /\ AheadOK'
  BY <1>1, <1>2, <1>5, RewriteStep DEF AheadOK, vars
<1>7. DatedOK'
  <2> SUFFICES ASSUME NEW q \in DOMAIN templates,
                      templates'[q].enabled, templates'[q].next = 0, Dateable(templates'[q].plan)
               PROVE  q > p
    BY <1>1, <1>6 DEF DatedOK
  <2>1. q # p
    BY <1>1, <1>2, <1>3, <1>4
  <2>2. q \in Undated /\ q > upto
    BY <1>1, <2>1 DEF SInv, DatedOK, Undated
  <2> QED BY <1>1, <2>1, <2>2 DEF SInv, SchedTypeOK, TemplateId
<1>8. SchedTypeOK'
  <2>1. TypeOK'
    BY <1>1 DEF SInv, SchedTypeOK, TypeOK, StoreTypeOK, vars
  <2> QED BY <1>1, <1>6, <2>1 DEF SInv, SchedTypeOK, vars
<1>9. ClockOK' /\ NeverEarly' /\ SlotsIncrease' /\ KnownOK'
  BY <1>1, <1>6 DEF SInv, ClockOK, NeverEarly, SlotsIncrease, KnownOK, vars
<1> QED BY <1>6, <1>7, <1>8, <1>9 DEF SInv

LEMMA ReadDueInv ==
  ASSUME SInv, ReadDue
  PROVE  SInv'
<1>1. /\ sched = "on" /\ todo' = Page /\ sweep' \in Continued
      /\ at' \in {0, now} /\ (Page # {} => at' = now)
      /\ UNCHANGED <<vars, templates, nextTemplate, origin, now, sched, upto>>
  BY DEF ReadDue
<1>2. now \in Nat /\ Cutoff \in Nat /\ Cutoff <= now
  BY DEF SInv, SchedTypeOK, ClockOK, Cutoff
<1>3. \A k \in Page : k \in Key /\ k.slot # 0 /\ k.slot <= now
  <2> SUFFICES ASSUME NEW p \in DueBy(Cutoff)
               PROVE  KeyOf(p) \in Key /\ KeyOf(p).slot # 0 /\ KeyOf(p).slot <= now
    BY DEF Page, Ahead
  <2>1. /\ p \in TemplateId /\ templates[p].next \in Nat
        /\ templates[p].next # 0 /\ templates[p].next <= Cutoff
    BY DEF DueBy, SInv, SchedTypeOK, TemplateRow
  <2> QED BY <1>2, <2>1 DEF KeyOf, Key
<1>4. sweep' \in [cutoff : Nat, id : TemplateId \cup {0}, slot : Nat] /\ sweep'.cutoff <= now
  <2>1. CASE sweep' = NoSweep
    BY <1>2, <2>1 DEF NoSweep
  <2>2. CASE \E k \in Page : sweep' = [cutoff |-> Cutoff, id |-> k.id, slot |-> k.slot]
    BY <1>2, <1>3, <2>2 DEF Key
  <2> QED BY <1>1, <2>1, <2>2 DEF Continued
<1>5. SchedTypeOK'
  <2>1. TypeOK'
    BY <1>1 DEF SInv, SchedTypeOK, TypeOK, StoreTypeOK, vars
  <2> QED BY <1>1, <1>2, <1>3, <1>4, <2>1 DEF SInv, SchedTypeOK, vars
<1>6. ClockOK'
  BY <1>1, <1>2, <1>3, <1>4 DEF ClockOK
<1>7. NeverEarly' /\ SlotsIncrease' /\ KnownOK' /\ AheadOK' /\ DatedOK'
  BY <1>1 DEF SInv, NeverEarly, SlotsIncrease, KnownOK, AheadOK, DatedOK, vars
<1> QED BY <1>5, <1>6, <1>7 DEF SInv

LEMMA StartedInv ==
  ASSUME SInv, Started
  PROVE  SInv'
<1>1. /\ sched = "init" /\ sched' = "on" /\ upto' = 0
      /\ \A p \in Undated : p <= upto
      /\ UNCHANGED <<vars, templates, nextTemplate, origin, now, sweep, todo, at>>
  BY DEF Started
<1>2. SchedTypeOK'
  <2>1. TypeOK'
    BY <1>1 DEF SInv, SchedTypeOK, TypeOK, StoreTypeOK, vars
  <2> QED BY <1>1, <2>1 DEF SInv, SchedTypeOK, vars
<1>3. DatedOK'
  <2> SUFFICES ASSUME NEW p \in DOMAIN templates,
                      templates[p].enabled, templates[p].next = 0, Dateable(templates[p].plan)
               PROVE  FALSE
    BY <1>1 DEF DatedOK
  <2>1. p \in Undated /\ p > upto
    BY <1>1 DEF SInv, DatedOK, Undated
  <2> QED BY <1>1, <2>1 DEF SInv, SchedTypeOK, TemplateId
<1>4. ClockOK' /\ NeverEarly' /\ SlotsIncrease' /\ KnownOK' /\ AheadOK'
  BY <1>1 DEF SInv, ClockOK, NeverEarly, SlotsIncrease, KnownOK, AheadOK, vars
<1> QED BY <1>2, <1>3, <1>4 DEF SInv

LEMMA TickInv ==
  ASSUME SInv, Tick
  PROVE  SInv'
<1>1. now' = now + 1 /\ UNCHANGED <<vars, templates, nextTemplate, origin, sched, upto, sweep, todo, at>>
  BY DEF Tick
<1>2. /\ now \in Nat /\ at \in Nat /\ sweep.cutoff \in Nat
      /\ \A t \in DOMAIN tasks : origin[t].slot \in Nat
  BY DEF SInv, SchedTypeOK, Origin
<1>3. SchedTypeOK'
  <2>1. TypeOK'
    BY <1>1 DEF SInv, SchedTypeOK, TypeOK, StoreTypeOK, vars
  <2> QED BY <1>1, <1>2, <2>1 DEF SInv, SchedTypeOK, vars
<1>4. ClockOK' /\ NeverEarly'
  BY <1>1, <1>2 DEF SInv, ClockOK, NeverEarly, vars
<1>5. SlotsIncrease' /\ KnownOK' /\ AheadOK' /\ DatedOK'
  BY <1>1 DEF SInv, SlotsIncrease, KnownOK, AheadOK, DatedOK, vars
<1> QED BY <1>3, <1>4, <1>5 DEF SInv

-----------------------------------------------------------------------------
(* The queue beside the Scheduler.                                         *)

\* A task a client adds is of no template, and all others keep their origin.
LEMMA QueueInv ==
  ASSUME SInv, Queue
  PROVE  SInv'
<1>1. Next /\ Originates(FromClient) /\ UNCHANGED <<templates, nextTemplate, now>>
  BY DEF Queue, Beside
<1>2. \/ sched' = "off" /\ upto' = 0 /\ sweep' = NoSweep /\ todo' = {} /\ at' = 0
      \/ /\ sched' = IF sched = "off" THEN "init" ELSE sched
         /\ UNCHANGED <<upto, sweep, todo, at>>
  BY DEF Queue, Beside
<1>3. FromClient \in Origin /\ FromClient.template = 0 /\ FromClient.slot = 0 /\ FromClient.by \notin Repeating
  BY DEF FromClient, Origin, Repeating
<1>4. /\ origin' \in [DOMAIN tasks' -> Origin]
      /\ \A t \in DOMAIN tasks' : origin'[t] = IF t \in DOMAIN tasks THEN origin[t] ELSE FromClient
  BY <1>1, <1>3 DEF Originates, SInv, SchedTypeOK
<1>5. now \in Nat /\ at \in Nat /\ nextTemplate \in Nat /\ nextTemplate # 0
  BY SchedulerConstants DEF SInv, SchedTypeOK
<1>6. SchedTypeOK'
  <2>1. TypeOK'
    BY <1>1, TypeNext DEF SInv, SchedTypeOK
  <2>2. /\ sched' \in {"off", "init", "on"} /\ upto' \in TemplateId \cup {0}
        /\ sweep' \in [cutoff : Nat, id : TemplateId \cup {0}, slot : Nat]
        /\ todo' \in SUBSET Key /\ at' \in Nat
    BY <1>2 DEF SInv, SchedTypeOK, NoSweep
  <2> QED BY <1>1, <1>4, <2>1, <2>2 DEF SInv, SchedTypeOK
<1>7. ClockOK'
  <2>1. CASE sched' = "off" /\ sweep' = NoSweep /\ todo' = {} /\ at' = 0
    BY <1>1, <1>5, <2>1 DEF ClockOK, NoSweep
  <2>2. CASE sched' = (IF sched = "off" THEN "init" ELSE sched) /\ UNCHANGED <<upto, sweep, todo, at>>
    BY <1>1, <2>2 DEF SInv, ClockOK
  <2> QED BY <1>2, <2>1, <2>2
<1>8. NeverEarly'
  BY <1>1, <1>3, <1>4, <1>5 DEF SInv, NeverEarly
<1>9. SlotsIncrease'
  BY <1>3, <1>4 DEF SInv, SlotsIncrease, Repeating
<1>10. KnownOK' /\ AheadOK'
  <2>1. 0 < nextTemplate
    BY <1>5
  <2> QED BY <1>1, <1>3, <1>4, <2>1 DEF SInv, KnownOK, AheadOK
<1>11. DatedOK'
  <2>1. \A p \in DOMAIN templates : p > 0
    BY DEF SInv, SchedTypeOK, TemplateId
  <2> QED BY <1>1, <1>2, <2>1 DEF SInv, DatedOK
<1> QED BY <1>6, <1>7, <1>8, <1>9, <1>10, <1>11 DEF SInv

-----------------------------------------------------------------------------
(* The theorems.                                                           *)

\* A start on the templates an earlier release left, whatever their slots.
UpgradedInit ==
  /\ Init
  /\ DOMAIN templates \subseteq TemplateId
  /\ templates \in [DOMAIN templates -> TemplateRow]
  /\ nextTemplate \in 1 .. MaxTemplates + 1
  /\ \A p \in DOMAIN templates : p < nextTemplate
  /\ origin = [t \in {} |-> {}]
  /\ now \in Nat
  /\ sched = "off"
  /\ Forgotten

UpgradedSpec == UpgradedInit /\ [][SchedNext]_allVars

LEMMA InitUpgraded ==
  ASSUME SchedInit
  PROVE  UpgradedInit
<1>1. DOMAIN templates = {} /\ templates \in [DOMAIN templates -> TemplateRow]
  BY DEF SchedInit
<1>2. nextTemplate \in 1 .. MaxTemplates + 1 /\ now \in Nat
  BY SchedulerConstants DEF SchedInit
<1> QED BY <1>1, <1>2 DEF SchedInit, UpgradedInit

LEMMA SInvInit ==
  ASSUME UpgradedInit
  PROVE  SInv
<1>1. TypeOK
  BY StoreConstants DEF UpgradedInit, Init, StoreInit, TypeOK, StoreTypeOK, TaskId, RunId
<1>2. /\ DOMAIN tasks = {} /\ DOMAIN origin = {} /\ now \in Nat /\ sched = "off"
      /\ upto = 0 /\ sweep = NoSweep /\ todo = {} /\ at = 0
  BY DEF UpgradedInit, Init, StoreInit, Forgotten
<1>3. origin \in [DOMAIN tasks -> Origin]
  BY DEF UpgradedInit, Init, StoreInit
<1>4. SchedTypeOK
  BY <1>1, <1>2, <1>3 DEF UpgradedInit, SchedTypeOK, NoSweep
<1>5. ClockOK
  BY <1>2 DEF ClockOK, NoSweep
<1>6. KnownOK
  BY <1>2 DEF UpgradedInit, KnownOK
<1> QED BY <1>2, <1>4, <1>5, <1>6 DEF SInv, NeverEarly, SlotsIncrease, AheadOK, DatedOK

LEMMA SInvNext ==
  ASSUME SInv, IInv, [SchedNext]_allVars
  PROVE  SInv'
<1>1. CASE UNCHANGED allVars
  <2>1. TypeOK'
    BY <1>1 DEF SInv, SchedTypeOK, TypeOK, StoreTypeOK, allVars, vars, schedVars
  <2>2. SchedTypeOK'
    BY <1>1, <2>1 DEF SInv, SchedTypeOK, allVars, vars, schedVars
  <2> QED BY <1>1, <2>2 DEF SInv, ClockOK, NeverEarly, SlotsIncrease, KnownOK, AheadOK, DatedOK,
                            allVars, vars, schedVars
<1>2. CASE Queue
  BY <1>2, QueueInv
<1>3. CASE TemplateClient
  <2>1. CASE \E plan \in Plans, job \in Jobs, cap \in Caps : CreateTemplate(plan, job, cap)
    BY <2>1, CreateInv
  <2>2. ASSUME NEW p \in DOMAIN templates, TriggerTemplate(p)
        PROVE  SInv'
    BY <2>2, TriggerInv
  <2>3. ASSUME NEW p \in DOMAIN templates, RemoveTemplates({p})
        PROVE  SInv'
    BY <2>3, RemoveTemplatesInv
  <2>4. ASSUME NEW p \in DOMAIN templates,
               \/ \E plan \in Plans, job \in Jobs, cap \in Caps : UpdateTemplate(p, plan, job, cap)
               \/ EnableTemplate(p) \/ DisableTemplate(p)
        PROVE  SInv'
    BY <2>4, EditInv
  <2> QED BY <1>3, <2>1, <2>2, <2>3, <2>4 DEF TemplateClient
<1>4. CASE SchedulerStep
  BY <1>4, InitializeInv, StartedInv, ReadDueInv, CloneInv, SkipInv DEF SchedulerStep, Work
<1>5. CASE PurgeDelayed
  BY <1>5, RemoveTemplatesInv DEF PurgeDelayed
<1>6. CASE Tick
  BY <1>6, TickInv
<1> QED BY <1>1, <1>2, <1>3, <1>4, <1>5, <1>6 DEF SchedNext

\* The inductive invariant of Scheduler and queue together.
THEOREM SchedInvariance == UpgradedSpec => [](SInv /\ IInv)
<1>1. UpgradedInit => SInv /\ IInv
  BY SInvInit, InitInv DEF UpgradedInit
<1>2. SInv /\ IInv /\ [SchedNext]_allVars => (SInv /\ IInv)'
  <2> SUFFICES ASSUME SInv, IInv, [SchedNext]_allVars PROVE SInv' /\ IInv'
    OBVIOUS
  <2>1. [Next]_vars
    BY StepKept DEF SInv
  <2> QED BY <2>1, SInvNext, InvNext
<1> QED BY <1>1, <1>2, PTL DEF UpgradedSpec

LEMMA SpecUpgraded == SchedSpec => UpgradedSpec
<1>1. SchedInit => UpgradedInit
  BY InitUpgraded
<1> QED BY <1>1, PTL DEF SchedSpec, UpgradedSpec

\* Tables, templates, origins and the Scheduler's memory keep their types.
THEOREM SchedTypeCorrect == SchedSpec => []SchedTypeOK
<1>1. SInv => SchedTypeOK
  BY DEF SInv
<1> QED BY <1>1, SchedInvariance, SpecUpgraded, PTL

\* The Scheduler beside the queue is a behaviour of the queue alone: every
\* theorem about TaskQueue's Spec holds with the Scheduler at work.
THEOREM KeepsQueue == SchedSpec => QueueKept
<1>1. SchedInit => Init
  BY DEF SchedInit
<1>2. SchedTypeOK /\ [SchedNext]_allVars => [Next]_vars
  BY StepKept
<1> QED BY <1>1, <1>2, SchedTypeCorrect, PTL DEF QueueKept, Spec, SchedSpec

\* No slot is served before its time, whatever clients do between the sweep
\* and the clone.
THEOREM NoTaskEarly == SchedSpec => []NeverEarly
<1>1. SInv => NeverEarly
  BY DEF SInv
<1> QED BY <1>1, SchedInvariance, SpecUpgraded, PTL

\* No slot of a template that repeats is served twice, nor out of order.
THEOREM SlotsServedOnce == SchedSpec => []SlotsIncrease
<1>1. SInv => SlotsIncrease
  BY DEF SInv
<1> QED BY <1>1, SchedInvariance, SpecUpgraded, PTL

\* Once the Scheduler has started, no enabled template is without a slot,
\* also if the database comes from a release that calculated none.
THEOREM NothingForgotten == UpgradedSpec => []NoGhosts
<1>1. SInv => NoGhosts
  BY DEF SInv, DatedOK, NoGhosts
<1> QED BY <1>1, SchedInvariance, PTL

\* The order of a sweep is transitive.
LEMMA EarlierTransitive ==
  ASSUME NEW i, NEW k, NEW l, Earlier(i, k), Earlier(k, l),
         i.slot \in Nat, k.slot \in Nat, l.slot \in Nat,
         i.id \in Nat, k.id \in Nat, l.id \in Nat
  PROVE  Earlier(i, l)
BY DEF Earlier

\* A template that is still to be read keeps its slot, or leaves the sweep.
LEMMA WorkShrinks ==
  ASSUME SInv, IInv, NEW k \in todo, CloneTask(k) \/ SkipSlot(k) \/ PassOver(k), sweep # NoSweep,
         NEW q \in DOMAIN templates', templates'[q].enabled, templates'[q].next # 0,
         templates'[q].next <= sweep.cutoff
  PROVE  q \in DOMAIN templates /\ templates'[q] = templates[q]
<1> DEFINE old == templates[k.id]
           slot == NextRunAfterScheduledSlot(old, at)
<1>1. CASE UNCHANGED templates
  BY <1>1
<1>2. CASE ~UNCHANGED templates
  <2>1. /\ StillDue(k)
        /\ \/ templates' = [templates EXCEPT ![k.id] = Served(@)]
           \/ templates' = [templates EXCEPT ![k.id].next = slot] /\ old.plan.kind # "delayed"
    BY <1>2 DEF CloneTask, SkipSlot, PassOver
  <2>2. k.id \in DOMAIN templates /\ old \in TemplateRow /\ at \in Nat
    BY <2>1 DEF StillDue, SInv, SchedTypeOK
  <2>3. old.plan.kind \in Repeating => slot \in Nat /\ (slot = 0 \/ slot > at)
    BY <2>2, FollowingSlot
  <2>4. sweep.cutoff <= at /\ sweep.cutoff \in Nat
    BY DEF SInv, SchedTypeOK, ClockOK
  <2>5. old.plan.kind \in Repeating \cup {"delayed"}
    BY <2>2 DEF TemplateRow, Plan, Kinds, Repeating
  <2>6. templates'[k.id].next \in {0, slot} /\ (old.plan.kind = "delayed" => templates'[k.id].next = 0)
    <3> HIDE DEF slot, old
    <3>1. CASE templates' = [templates EXCEPT ![k.id] = Served(@)]
      <4>1. templates'[k.id] = Served(old)
        BY <2>2, <3>1 DEF SInv, SchedTypeOK, old
      <4> QED BY <2>2, <4>1 DEF Served, slot, TemplateRow
    <3>2. CASE templates' = [templates EXCEPT ![k.id].next = slot] /\ old.plan.kind # "delayed"
      BY <2>2, <3>2 DEF TemplateRow, old
    <3> QED BY <2>1, <3>1, <3>2
  <2> HIDE DEF slot, old
  <2>7. q # k.id
    BY <2>2, <2>3, <2>4, <2>5, <2>6
  <2> QED BY <2>1, <2>7
<1> QED BY <1>1, <1>2

LEMMA SweepStep ==
  ASSUME SInv, IInv, [SchedNext]_allVars, sweep # NoSweep, sweep' # NoSweep, ~TemplateClient
  PROVE  Ahead' \subseteq Ahead
<1>1. /\ sched = "on"
      /\ now \in Nat /\ sweep.cutoff \in Nat /\ sweep.id \in Nat /\ sweep.slot \in Nat
      /\ Cutoff = sweep.cutoff /\ Cutoff' = sweep'.cutoff
  BY DEF SInv, SchedTypeOK, ClockOK, Cutoff, TemplateId
<1>2. SchedTypeOK'
  BY SInvNext DEF SInv
<1>3. ASSUME sweep' = sweep,
             \A q \in DOMAIN templates' :
                templates'[q].enabled /\ templates'[q].next # 0 /\ templates'[q].next <= sweep.cutoff
                => q \in DOMAIN templates /\ templates'[q] = templates[q]
      PROVE  Ahead' \subseteq Ahead
  BY <1>1, <1>3 DEF Ahead, DueBy, KeyOf
<1>4. CASE UNCHANGED <<templates, sweep>>
  BY <1>3, <1>4
<1>5. CASE Queue
  BY <1>4, <1>5 DEF Queue, Beside
<1>6. CASE ReadDue
  <2>1. /\ UNCHANGED templates
        /\ \E k \in Page : sweep' = [cutoff |-> Cutoff, id |-> k.id, slot |-> k.slot]
    BY <1>6 DEF ReadDue, Continued
  <2>2. PICK k \in Page : sweep' = [cutoff |-> Cutoff, id |-> k.id, slot |-> k.slot]
    BY <2>1
  <2>3. sweep'.cutoff = sweep.cutoff /\ sweep'.id = k.id /\ sweep'.slot = k.slot
    BY <1>1, <2>2
  <2>4. Earlier(sweep, k) /\ k.id \in Nat /\ k.slot \in Nat
    <3>1. PICK p \in DOMAIN templates : k = KeyOf(p) /\ Earlier(sweep, k)
      BY DEF Page, Ahead, DueBy
    <3> QED BY <3>1 DEF KeyOf, SInv, SchedTypeOK, TemplateRow, TemplateId
  <2> SUFFICES ASSUME NEW p \in DOMAIN templates, templates[p].enabled, templates[p].next # 0,
                      templates[p].next <= sweep.cutoff, Earlier(sweep', KeyOf(p))
               PROVE  Earlier(sweep, KeyOf(p))
    BY <1>1, <2>1, <2>3 DEF Ahead, DueBy, KeyOf
  <2>5. KeyOf(p).id \in Nat /\ KeyOf(p).slot \in Nat
    BY DEF KeyOf, SInv, SchedTypeOK, TemplateRow, TemplateId
  <2>6. Earlier(k, KeyOf(p))
    BY <2>3 DEF Earlier
  <2> QED BY <1>1, <2>4, <2>5, <2>6, EarlierTransitive
<1>7. CASE Work
  <2>1. PICK k \in todo : CloneTask(k) \/ SkipSlot(k) \/ PassOver(k)
    BY <1>7 DEF Work
  <2>2. sweep' = sweep
    BY <2>1 DEF CloneTask, SkipSlot, PassOver, Turn
  <2> QED BY <1>3, <2>1, <2>2, WorkShrinks
<1>8. CASE PurgeDelayed
  BY <1>3, <1>8 DEF PurgeDelayed, RemoveTemplates, SchedulerIdles
<1>9. CASE SchedulerStep
  BY <1>1, <1>6, <1>7, <1>9 DEF SchedulerStep, InitializeNextRunAt, Started
<1>10. CASE UNCHANGED allVars \/ Tick
  BY <1>4, <1>10 DEF allVars, schedVars, Tick
<1> QED BY <1>5, <1>8, <1>9, <1>10 DEF SchedNext

\* A sweep of several pages never grows by anything but a client's edit.
THEOREM SweepsEnd == SchedSpec => SweepShrinks
<1>1. /\ SInv /\ IInv /\ [SchedNext]_allVars
      => [sweep # NoSweep /\ sweep' # NoSweep /\ ~TemplateClient => Ahead' \subseteq Ahead]_allVars
  BY SweepStep
<1> QED BY <1>1, SchedInvariance, SpecUpgraded, PTL DEF SweepShrinks, SchedSpec

\* An interval counts from the slot, however late it is served.
LEMMA PhaseOfSlot ==
  ASSUME NEW next \in Nat, NEW every \in Nat \ {0}, NEW after \in Nat, next <= after,
         NEW slot, slot = next + ((after - next) \div every + 1) * every
  PROVE  slot > after /\ slot - every <= after /\ (slot - next) % every = 0
<1> DEFINE late == after - next
           q == late \div every
<1>1. late \in Nat /\ q \in Nat /\ q * every <= late /\ late < (q + 1) * every
  OBVIOUS
<1>2. (q + 1) * every \in Nat /\ ((q + 1) * every) % every = 0
  BY <1>1
<1>3. slot = next + (q + 1) * every /\ after = next + late /\ (q + 1) * every = q * every + every
  BY <1>1
<1> HIDE DEF q, late
<1>4. slot - next = (q + 1) * every
  BY <1>2, <1>3
<1> QED BY <1>1, <1>2, <1>3, <1>4

\* A template that repeats keeps its phase through delays of any length.
THEOREM PhaseIsKept == SchedSpec => PhaseKept
<1>1. ASSUME SInv, NEW k \in todo, CloneTask(k) \/ SkipSlot(k), templates[k.id].plan.kind = "recurring"
      PROVE  /\ templates'[k.id].next > at
             /\ templates'[k.id].next - templates[k.id].plan.every <= at
             /\ (templates'[k.id].next - k.slot) % templates[k.id].plan.every = 0
  <2> DEFINE old == templates[k.id]
             slot == NextRunAfterScheduledSlot(old, at)
  <2>1. \/ templates' = [templates EXCEPT ![k.id] = Served(@)]
        \/ templates' = [templates EXCEPT ![k.id].next = slot]
    BY <1>1 DEF CloneTask, SkipSlot
  <2>2. k.id \in DOMAIN templates /\ old \in TemplateRow /\ old.next = k.slot
    BY <1>1 DEF CloneTask, SkipSlot, StillDue, SInv, SchedTypeOK
  <2>3. /\ k.slot \in Nat /\ k.slot # 0 /\ k.slot <= at /\ at \in Nat
        /\ old.plan.every \in Nat \ {0}
    BY <1>1, <2>2 DEF SInv, SchedTypeOK, ClockOK, Key, TemplateRow, Plan
  <2>4. slot = k.slot + ((at - k.slot) \div old.plan.every + 1) * old.plan.every
    BY <1>1, <2>2, <2>3 DEF NextRunAfterScheduledSlot
  <2>5. templates'[k.id].next = slot
    <3> HIDE DEF slot, old
    <3>1. CASE templates' = [templates EXCEPT ![k.id] = Served(@)]
      <4>1. templates'[k.id] = Served(old) /\ old.plan.kind # "delayed"
        BY <1>1, <2>2, <3>1 DEF SInv, SchedTypeOK, old
      <4> QED BY <2>2, <4>1 DEF Served, slot, TemplateRow
    <3>2. CASE templates' = [templates EXCEPT ![k.id].next = slot]
      BY <2>2, <3>2 DEF TemplateRow, old
    <3> QED BY <2>1, <3>1, <3>2
  <2> HIDE DEF slot
  <2> QED BY <2>3, <2>4, <2>5, PhaseOfSlot
<1>2. SInv /\ [SchedNext]_allVars =>
        [\A k \in todo : ClonedOrSkipped(k) /\ templates[k.id].plan.kind = "recurring" =>
            /\ templates'[k.id].next > at
            /\ templates'[k.id].next - templates[k.id].plan.every <= at
            /\ (templates'[k.id].next - k.slot) % templates[k.id].plan.every = 0]_allVars
  BY <1>1 DEF ClonedOrSkipped
<1> QED BY <1>2, SchedInvariance, SpecUpgraded, PTL DEF PhaseKept, SchedSpec
-----------------------------------------------------------------------------
(* maxInstances.  Between a claim and its run a cancelled task counts for  *)
(* nothing in the tables, and counts again once the run is recorded; the   *)
(* invariant therefore counts the claim.  No clone can come in between:    *)
(* the Scheduler's transactions never split a claim from its run.          *)

Engaged(t) ==
  \/ tasks[t].status \in {"pending", "running", "failed"}
  \/ OpenRuns(t) # {}
  \/ t = claim

InUse(p) == {t \in DOMAIN tasks : Scheduled(t) /\ origin[t].template = p /\ Engaged(t)}

CapOK == \A p \in DOMAIN templates : Cardinality(InUse(p)) <= templates[p].cap

\* A run that is open was open, or is that of the claimed task.
LEMMA RunsStep ==
  ASSUME StoreTypeOK, [Next]_vars, NEW r \in DOMAIN runs', runs'[r].status = "running"
  PROVE  \/ r \in DOMAIN runs /\ runs[r].status = "running" /\ runs[r].task = runs'[r].task
         \/ runs'[r].task = claim
<1> USE DEF storeVars
<1>1. ASSUME NEW q, NEW s, Close(q, s), s # "running"
      PROVE  r \in DOMAIN runs /\ runs[r].status = "running" /\ runs[r].task = runs'[r].task
  <2>1. runs \in [DOMAIN runs -> RunRow]
    BY DEF StoreTypeOK
  <2> QED BY <1>1, <2>1 DEF Close, RunRow
<1>2. ASSUME NEW S, Remove(S)
      PROVE  r \in DOMAIN runs /\ runs'[r] = runs[r]
  BY <1>2 DEF Remove
<1>3. CASE runs' = runs
  BY <1>3
<1>4. CASE StartRun
  BY <1>4 DEF StartRun, CreateRun
<1>5. CASE Client
  BY <1>1, <1>2, <1>3, <1>5 DEF Client, ClientAdd, ClientUpdate, ClientCancel, ClientRetry, ClientRetryBatch,
     ClientDelete, ClientAbandon, Add, Update, Cancel, Retry, RetryBatch, Delete, CloseRun
<1>6. CASE Execution \/ Shutdown
  BY <1>1, <1>6 DEF Execution, Shutdown, Settle, CompleteRun, FailRun, RecoverRun, InterruptRun, CloseRun
<1>7. CASE Retention
  BY <1>2, <1>7 DEF Retention, Cleanup
<1>8. CASE \/ GatewayStart \/ GatewayReady \/ GatewayStop \/ GatewayExit
           \/ Poll \/ Look \/ Dispatch \/ NoDispatch \/ StartFails \/ HandBack \/ Backoff \/ UNCHANGED vars
  <2>1. runs' = runs
    BY <1>8 DEF GatewayStart, GatewayReady, GatewayStop, GatewayExit, Poll, Look, Dispatch, NoDispatch, StartFails,
       HandBack, Backoff, ResetOrphans, ResetToPending, ResolveBlocked, ClaimNext, Fail, BackoffElapses, vars
  <2> QED BY <1>3, <2>1
<1> QED BY <1>4, <1>5, <1>6, <1>7, <1>8 DEF Next

\* The claimed task was claimed, or waited in the queue.
LEMMA ClaimStep ==
  ASSUME [Next]_vars, claim' # 0
  PROVE  claim' = claim \/ claim' \in Waiting(tasks)
<1>1. CASE Dispatch
  BY <1>1 DEF Dispatch, ClaimNext, Runnable
<1>2. CASE ~Dispatch
  BY <1>2 DEF Next, Client, GatewayStart, GatewayReady, GatewayStop, GatewayExit, Poll, Look, NoDispatch, StartRun,
     StartFails, HandBack, Execution, Shutdown, Retention, Backoff, queueVars, vars
<1> QED BY <1>1, <1>2

\* What a step of the queue engages was engaged: a task is taken up again by
\* nobody but a user.
LEMMA EngagedStep ==
  ASSUME HInv, HInv', [Next]_vars, ~Revives, NEW t \in DOMAIN tasks, t \in DOMAIN tasks', Scheduled(t), Engaged(t)'
  PROVE  Engaged(t)
<1>1. CASE tasks'[t].status \in {"pending", "running", "failed"}
  <2>1. tasks[t].status # "dead_letter"
    BY <1>1 DEF Revives
  <2>2. tasks[t].status \notin {"done", "cancelled"}
    <3>1. CASE Steady
      BY <1>1, <3>1 DEF Steady, SteadyRow, Over
    <3>2. ASSUME NEW S, Removes(S)
          PROVE  tasks'[t] = tasks[t]
      BY <3>2, RemovesRest
    <3> QED BY <1>1, <3>1, <3>2, StepKind
  <2>3. tasks[t].status \in TaskStatus
    BY DEF HInv, IInv, TypeOK, StoreTypeOK, TaskRow
  <2> QED BY <2>1, <2>2, <2>3 DEF Engaged, TaskStatus
<1>2. CASE OpenRuns(t)' # {}
  <2>1. PICK r \in DOMAIN runs' : runs'[r].task = t /\ runs'[r].status = "running"
    BY <1>2 DEF OpenRuns
  <2>2. \/ r \in DOMAIN runs /\ runs[r].status = "running" /\ runs[r].task = t
        \/ t = claim
    BY <2>1, RunsStep DEF HInv, IInv, TypeOK
  <2> QED BY <2>2 DEF Engaged, OpenRuns
<1>3. CASE t = claim'
  <2>1. t # 0
    BY DEF HInv, IInv, TypeOK, StoreTypeOK, TaskId
  <2> QED BY <1>3, <2>1, ClaimStep DEF Engaged, Waiting
<1> QED BY <1>1, <1>2, <1>3 DEF Engaged

LEMMA InUseFinite ==
  ASSUME TypeOK, NEW p
  PROVE  IsFiniteSet(InUse(p)) /\ Cardinality(InUse(p)) \in Nat
<1>1. IsFiniteSet(TaskId)
  BY FS_Interval, StoreConstants DEF TaskId
<1>2. InUse(p) \subseteq TaskId
  BY DEF InUse, TypeOK, StoreTypeOK
<1> QED BY <1>1, <1>2, FS_Subset, FS_CardinalityType

\* A step that adds no task of a template, and keeps or raises its limit.
LEMMA InUseStep ==
  ASSUME SInv, SInv', HInv, HInv', CapOK, [Next]_vars, ~Revives, ~LowersCap,
         \A t \in DOMAIN tasks' \ DOMAIN tasks : origin'[t].by \notin Kinds,
         \A t \in DOMAIN tasks' \cap DOMAIN tasks : origin'[t] = origin[t],
         \A p \in DOMAIN templates' \ DOMAIN templates : p >= nextTemplate
  PROVE  CapOK'
<1> SUFFICES ASSUME NEW p \in DOMAIN templates'
             PROVE  Cardinality(InUse(p)') <= templates'[p].cap
  BY DEF CapOK
<1>1. ASSUME NEW t \in InUse(p)'
      PROVE  t \in InUse(p)
  <2>1. t \in DOMAIN tasks' /\ Scheduled(t)' /\ origin'[t].template = p /\ Engaged(t)'
    BY <1>1 DEF InUse
  <2>2. t \in DOMAIN tasks /\ origin'[t] = origin[t]
    BY <2>1 DEF Scheduled
  <2>3. Scheduled(t) /\ origin[t].template = p
    BY <2>1, <2>2 DEF Scheduled
  <2>4. Engaged(t)
    BY <2>1, <2>2, <2>3, EngagedStep
  <2> QED BY <2>2, <2>3, <2>4 DEF InUse
<1>2. IsFiniteSet(InUse(p)) /\ Cardinality(InUse(p)) \in Nat
  BY InUseFinite DEF HInv, IInv
<1>3. Cardinality(InUse(p)') <= Cardinality(InUse(p)) /\ Cardinality(InUse(p)') \in Nat
  BY <1>1, <1>2, FS_Subset, FS_CardinalityType
<1>4. templates'[p].cap \in Nat
  BY DEF SInv, SchedTypeOK, TemplateRow
<1>5. CASE p \in DOMAIN templates
  <2>1. templates[p].cap \in Nat /\ Cardinality(InUse(p)) <= templates[p].cap
    BY <1>5 DEF SInv, SchedTypeOK, TemplateRow, CapOK
  <2>2. ~(templates'[p].cap < templates[p].cap)
    BY <1>5 DEF LowersCap
  <2> QED BY <1>2, <1>3, <1>4, <2>1, <2>2
<1>6. CASE p \notin DOMAIN templates
  <2>1. \A t \in DOMAIN tasks : origin[t].template # p
    <3>1. p >= nextTemplate /\ p \in Nat /\ nextTemplate \in Nat
      BY <1>6 DEF SInv, SchedTypeOK, TemplateId
    <3>2. \A t \in DOMAIN tasks : origin[t].template < nextTemplate /\ origin[t].template \in Nat
      BY DEF SInv, SchedTypeOK, KnownOK, Origin, TemplateId
    <3> QED BY <3>1, <3>2
  <2>2. InUse(p)' = {}
    BY <1>1, <2>1 DEF InUse
  <2>3. Cardinality(InUse(p)') = 0
    BY <2>2, FS_EmptySet
  <2> QED BY <1>4, <2>3
<1> QED BY <1>5, <1>6
\* What the transaction of a clone counts.
LEMMA InstancesCover ==
  ASSUME IInv, phase # "claimed", NEW p
  PROVE  /\ Cardinality(InUse(p)) <= Instances(p)
         /\ Instances(p) \in Nat
<1> DEFINE counted == {t \in DOMAIN tasks : origin[t].template = p /\ (Live(t) \/ OpenRuns(t) # {})}
<1>1. IsFiniteSet(counted) /\ Cardinality(counted) \in Nat
  <2>1. IsFiniteSet(TaskId)
    BY FS_Interval, StoreConstants DEF TaskId
  <2>2. counted \subseteq TaskId
    BY DEF IInv, TypeOK, StoreTypeOK
  <2> QED BY <2>1, <2>2, FS_Subset, FS_CardinalityType
<1>2. InUse(p) \subseteq counted
  <2> SUFFICES ASSUME NEW t \in InUse(p) PROVE t \in counted
    OBVIOUS
  <2>1. t \in DOMAIN tasks /\ origin[t].template = p /\ Engaged(t)
    BY DEF InUse
  <2>2. t # claim
    BY <2>1 DEF IInv, ClaimOK, TypeOK, StoreTypeOK, TaskId
  <2>3. tasks[t].status = "failed" => tasks[t].retryCount <= tasks[t].maxRetries
    BY <2>1 DEF IInv, DbOK
  <2> QED BY <2>1, <2>2, <2>3 DEF Engaged, Live
<1>3. Instances(p) = Cardinality(counted)
  BY DEF Instances
<1> QED BY <1>1, <1>2, <1>3, FS_Subset

LEMMA CloneCap ==
  ASSUME SInv, SInv', HInv, HInv', CapOK, NEW k \in todo, CloneTask(k)
  PROVE  CapOK'
<1> DEFINE n == nextTask
           old == templates[k.id]
<1>1. /\ Turn(k) /\ StillDue(k) /\ AddFrom(old) /\ Instances(k.id) < old.cap
      /\ Originates([template |-> k.id, slot |-> old.next, by |-> old.plan.kind])
      /\ templates' = [templates EXCEPT ![k.id] = Served(old)]
  BY DEF CloneTask
<1>2. UNCHANGED queueVars /\ phase # "claimed" /\ k.id \in DOMAIN templates
  BY <1>1 DEF Turn, StillDue
<1>3. old \in TemplateRow /\ old.next \in Nat /\ old.plan.kind \in Kinds /\ old.cap \in Nat
  BY <1>2 DEF SInv, SchedTypeOK, TemplateRow, Plan
<1>4. IInv /\ IInv'
  BY DEF HInv
<1>5. /\ DOMAIN tasks' = DOMAIN tasks \cup {n}
      /\ \A t \in DOMAIN tasks : origin'[t] = origin[t] /\ t < n
      /\ origin'[n] = [template |-> k.id, slot |-> old.next, by |-> old.plan.kind]
      /\ n \in Nat
  BY <1>1, <1>2, <1>3, <1>4, AddedTask
<1>6. /\ \A t \in DOMAIN tasks : t # n /\ tasks'[t] = tasks[t]
      /\ runs' = runs
  BY <1>1, <1>5 DEF AddFrom, Add, IInv, TypeOK, StoreTypeOK, TaskId
<1>7. DOMAIN templates' = DOMAIN templates /\ \A p \in DOMAIN templates : templates'[p].cap = templates[p].cap
  <2>1. Served(old).cap = old.cap
    BY <1>3 DEF Served, TemplateRow
  <2> QED BY <1>1, <1>2, <2>1
<1>8. ASSUME NEW p, NEW t \in InUse(p)', t # n
      PROVE  t \in InUse(p)
  <2>1. t \in DOMAIN tasks' /\ Scheduled(t)' /\ origin'[t].template = p /\ Engaged(t)'
    BY <1>8 DEF InUse
  <2>2. t \in DOMAIN tasks /\ origin'[t] = origin[t] /\ tasks'[t] = tasks[t]
    BY <1>5, <1>6, <1>8, <2>1
  <2>3. Scheduled(t) /\ Engaged(t)
    BY <1>2, <1>6, <2>1, <2>2 DEF Scheduled, Engaged, OpenRuns, queueVars
  <2> QED BY <2>1, <2>2, <2>3 DEF InUse
<1>9. ASSUME NEW p \in DOMAIN templates
      PROVE  Cardinality(InUse(p)') <= templates'[p].cap
  <2>1. IsFiniteSet(InUse(p)) /\ Cardinality(InUse(p)) \in Nat
    BY <1>4, InUseFinite DEF IInv
  <2>2. Cardinality(InUse(p)) <= templates[p].cap /\ templates[p].cap \in Nat
    BY DEF CapOK, SInv, SchedTypeOK, TemplateRow
  <2>3. CASE p = k.id
    <3>1. InUse(p)' \subseteq InUse(p) \cup {n}
      BY <1>8
    <3>2. Cardinality(InUse(p)) < old.cap
      <4>1. Cardinality(InUse(p)) <= Instances(p) /\ Instances(p) \in Nat
        BY <1>2, <1>4, InstancesCover
      <4> QED BY <1>1, <1>3, <2>1, <2>3, <4>1
    <3>3. /\ IsFiniteSet(InUse(p) \cup {n})
          /\ Cardinality(InUse(p) \cup {n}) <= Cardinality(InUse(p)) + 1
          /\ Cardinality(InUse(p) \cup {n}) \in Nat
      <4> DEFINE I == InUse(p)
      <4>1. IsFiniteSet(I) /\ Cardinality(I) \in Nat
        BY <2>1
      <4> HIDE DEF I
      <4>2. /\ IsFiniteSet(I \cup {n})
            /\ Cardinality(I \cup {n}) = IF n \in I THEN Cardinality(I) ELSE Cardinality(I) + 1
        BY <4>1, FS_AddElement
      <4>3. Cardinality(I \cup {n}) <= Cardinality(I) + 1 /\ Cardinality(I \cup {n}) \in Nat
        BY <4>1, <4>2
      <4> QED BY <4>2, <4>3 DEF I
    <3>4. Cardinality(InUse(p)') <= Cardinality(InUse(p) \cup {n}) /\ Cardinality(InUse(p)') \in Nat
      BY <3>1, <3>3, FS_Subset, FS_CardinalityType
    <3> QED BY <1>3, <1>7, <2>1, <2>3, <3>2, <3>3, <3>4
  <2>4. CASE p # k.id
    <3>1. n \notin InUse(p)'
      BY <1>5, <2>4 DEF InUse
    <3>2. InUse(p)' \subseteq InUse(p)
      BY <1>8, <3>1
    <3>3. Cardinality(InUse(p)') <= Cardinality(InUse(p)) /\ Cardinality(InUse(p)') \in Nat
      BY <2>1, <3>2, FS_Subset, FS_CardinalityType
    <3> QED BY <1>7, <2>1, <2>2, <3>3
  <2> QED BY <2>3, <2>4
<1> QED BY <1>7, <1>9 DEF CapOK

LEMMA CapNext ==
  ASSUME SInv, SInv', HInv, HInv', CapOK, [SchedNext]_allVars, ~Revives, ~LowersCap
  PROVE  CapOK'
<1> DEFINE NoClone ==
             /\ \A t \in DOMAIN tasks' \ DOMAIN tasks : origin'[t].by \notin Kinds
             /\ \A t \in DOMAIN tasks' \cap DOMAIN tasks : origin'[t] = origin[t]
             /\ \A p \in DOMAIN templates' \ DOMAIN templates : p >= nextTemplate
<1>0. [Next]_vars
  BY StepKept DEF SInv
<1>1. CASE \E k \in todo : CloneTask(k)
  BY <1>1, CloneCap
<1>2. ASSUME NEW new, Originates(new), new.by \notin Kinds, templates' = templates
      PROVE  NoClone
  BY <1>2 DEF Originates
<1>3. ASSUME tasks' = tasks, origin' = origin, DOMAIN templates' \subseteq DOMAIN templates \cup {nextTemplate}
      PROVE  NoClone
  <2>1. nextTemplate \in Nat
    BY DEF SInv, SchedTypeOK
  <2> QED BY <1>3, <2>1
<1> HIDE DEF NoClone
<1>4. CASE Queue
  <2>1. FromClient.by \notin Kinds
    BY DEF FromClient, Kinds
  <2> QED BY <1>0, <1>2, <1>4, <2>1, InUseStep DEF Queue, Beside, NoClone
<1>5. CASE TemplateClient
  <2>1. ASSUME NEW p \in DOMAIN templates, TriggerTemplate(p)
        PROVE  NoClone
    <3> DEFINE new == [template |-> p, slot |-> now, by |-> "trigger"]
    <3>1. Originates(new) /\ templates' = templates
      BY <2>1 DEF TriggerTemplate
    <3>2. new.by \notin Kinds
      BY DEF Kinds
    <3> HIDE DEF new
    <3> QED BY <1>2, <3>1, <3>2
  <2>2. ASSUME NEW p \in DOMAIN templates,
               \/ \E plan \in Plans, job \in Jobs, cap \in Caps : UpdateTemplate(p, plan, job, cap)
               \/ EnableTemplate(p) \/ DisableTemplate(p) \/ RemoveTemplates({p})
        PROVE  NoClone
    BY <1>3, <2>2 DEF UpdateTemplate, EnableTemplate, DisableTemplate, RemoveTemplates, WriteTemplate, vars
  <2>3. ASSUME NEW plan \in Plans, NEW job \in Jobs, NEW cap \in Caps, CreateTemplate(plan, job, cap)
        PROVE  NoClone
    BY <1>3, <2>3 DEF CreateTemplate, vars
  <2> QED BY <1>0, <1>5, <2>1, <2>2, <2>3, InUseStep DEF TemplateClient, NoClone
<1>6. CASE SchedulerStep /\ ~\E k \in todo : CloneTask(k)
  <2>1. NoClone
    BY <1>3, <1>6 DEF SchedulerStep, InitializeNextRunAt, Started, ReadDue, Work, SkipSlot, PassOver, vars, storeVars
  <2> QED BY <1>0, <2>1, InUseStep DEF NoClone
<1>7. CASE PurgeDelayed \/ Tick \/ UNCHANGED allVars
  <2>1. NoClone
    BY <1>3, <1>7 DEF PurgeDelayed, RemoveTemplates, Tick, allVars, schedVars, vars
  <2> QED BY <1>0, <2>1, InUseStep DEF NoClone
<1> QED BY <1>1, <1>4, <1>5, <1>6, <1>7 DEF SchedNext

\* What every step keeps, the queue's rows included.
THEOREM SchedHistoryInvariance == UpgradedSpec => [](SInv /\ HInv)
<1>1. UpgradedInit => SInv /\ HInv
  BY SInvInit, KeptInit DEF UpgradedInit
<1>2. SInv /\ HInv /\ [SchedNext]_allVars => (SInv /\ HInv)'
  <2> SUFFICES ASSUME SInv, HInv, [SchedNext]_allVars PROVE SInv' /\ HInv'
    OBVIOUS
  <2>1. [Next]_vars
    BY StepKept DEF SInv
  <2> QED BY <2>1, SInvNext, KeptStep DEF HInv
<1> QED BY <1>1, <1>2, PTL DEF UpgradedSpec

\* The Scheduler never takes a template beyond maxInstances, whatever was
\* cancelled in execution, claimed, started by hand, edited or left by a
\* crash: the limit is exceeded only if a user takes up a dead letter again
\* or lowers it.
THEOREM InstancesStayCapped ==
  UpgradedSpec /\ [][~Revives /\ ~LowersCap]_allVars => []InstancesCapped
<1>1. UpgradedInit => CapOK
  <2> SUFFICES ASSUME UpgradedInit, NEW p \in DOMAIN templates
               PROVE  Cardinality(InUse(p)) <= templates[p].cap
    BY DEF CapOK
  <2>1. InUse(p) = {}
    BY DEF UpgradedInit, Init, StoreInit, InUse
  <2>2. Cardinality(InUse(p)) = 0
    BY <2>1, FS_EmptySet
  <2>3. templates[p].cap \in Nat
    BY DEF UpgradedInit, TemplateRow
  <2> QED BY <2>2, <2>3
<1>2. CapOK /\ SInv /\ SInv' /\ HInv /\ HInv' /\ [SchedNext]_allVars /\ [~Revives /\ ~LowersCap]_allVars => CapOK'
  <2> SUFFICES ASSUME CapOK, SInv, SInv', HInv, HInv', [SchedNext]_allVars, [~Revives /\ ~LowersCap]_allVars
               PROVE  CapOK'
    OBVIOUS
  <2>1. CASE UNCHANGED allVars
    BY <2>1 DEF CapOK, InUse, Engaged, Scheduled, OpenRuns, allVars, vars, schedVars
  <2> QED BY <2>1, CapNext
<1>3. SInv /\ HInv /\ CapOK => InstancesCapped
  <2> SUFFICES ASSUME SInv, HInv, CapOK, NEW p \in DOMAIN templates
               PROVE  Cardinality({t \in DOMAIN tasks :
                                     /\ Scheduled(t) /\ origin[t].template = p
                                     /\ tasks[t].status \in {"pending", "running", "failed"} \/ OpenRuns(t) # {}})
                        <= templates[p].cap
    BY DEF InstancesCapped
  <2> DEFINE seen == {t \in DOMAIN tasks :
                        /\ Scheduled(t) /\ origin[t].template = p
                        /\ tasks[t].status \in {"pending", "running", "failed"} \/ OpenRuns(t) # {}}
  <2>1. seen \subseteq InUse(p)
    BY DEF InUse, Engaged
  <2>2. IsFiniteSet(InUse(p)) /\ Cardinality(InUse(p)) \in Nat
    BY InUseFinite DEF HInv, IInv
  <2>3. Cardinality(seen) <= Cardinality(InUse(p)) /\ Cardinality(seen) \in Nat
    BY <2>1, <2>2, FS_Subset, FS_CardinalityType
  <2>4. Cardinality(InUse(p)) <= templates[p].cap /\ templates[p].cap \in Nat
    BY DEF CapOK, SInv, SchedTypeOK, TemplateRow
  <2> QED BY <2>2, <2>3, <2>4
<1> QED BY <1>1, <1>2, <1>3, SchedHistoryInvariance, PTL DEF UpgradedSpec
=============================================================================
