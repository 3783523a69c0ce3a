---------------------------- MODULE UsageMetering ----------------------------
(***************************************************************************)
(* The usage of one tenant and one metric: the monthly counters in Redis,  *)
(* the daily rows in PostgreSQL, the requests and referral events that     *)
(* count, the daily snapshot with its threshold warnings and the monthly   *)
(* reset.                                                                  *)
(*                                                                         *)
(* Every Redis command and every database statement is a step of its own:  *)
(* nothing in the code makes two of them atomic.  A handler is a request   *)
(* or a delivery of an event; each of the two repeated jobs runs at most   *)
(* once at a time.  Days are numbered from 0 and a month has MonthDays.    *)
(* Keys live longer (60 days) than the run looks.                          *)
(***************************************************************************)
EXTENDS PlanLimits, FiniteSets

CONSTANTS
  Handlers,          \* requests and deliveries in progress at the same time
  Events,            \* referral events on the analytics queue
  Deltas,            \* what an event may count
  Accounts,          \* the accounts looked at
  Plans,             \* the plan catalogue
  RedisLimits,       \* what the key limits:<tenant>:<metric> may hold: {Null} in
                     \* this code, where nothing calls setLimit
  ConsumerContexts,  \* may the consumer find a tenant in its context?  {FALSE} in
                     \* this code, which never sets one
  Thresholds,        \* percentages warned about (80 and 100)
  MaxAmount,         \* largest amount of one request
  MonthDays, MaxDay, \* days of a month, days looked at (bound)
  MaxReceives,       \* deliveries before an event goes to the DLQ
  MaxAttempts,       \* attempts BullMQ gives a job (3)
  MaxOps,            \* requests and deliveries (bound)
  MaxFaults          \* exceptions and crashes (bound)

ASSUME BoundsAssumption ==
  /\ MaxAmount \in Nat \ {0}
  /\ MonthDays \in Nat \ {0}
  /\ MaxDay \in Nat
  /\ MaxReceives \in Nat
  /\ MaxAttempts \in Nat \ {0}
  /\ MaxOps \in Nat
  /\ MaxFaults \in Nat

ASSUME DataAssumption ==
  /\ Accounts \subseteq Account
  /\ Plans \in Catalogue
  /\ RedisLimits \subseteq Limit
  /\ ConsumerContexts \subseteq BOOLEAN
  /\ Deltas \subseteq Int \ {0}
  /\ Thresholds \subseteq Nat /\ Thresholds # {}
  /\ Null \notin Int
  /\ NoPlan \notin Limit

ASSUME HandlersAssumption == IsFiniteSet(Handlers) /\ Handlers # {}

VARIABLES
  today,
  account,       \* the tenant's account: it stays as it is
  redisLimit,    \* the limit in Redis, read by the jobs
  counter,       \* per month: usage:<tenant>:<metric>:<month>, 0 when missing
  listed,        \* is the metric in usage-metrics:<tenant>?
  flags,         \* thresholds marked as triggered
  rows,          \* per day: current_usage of the row, Null when missing
  pc, task,      \* per handler: next step and what it works on
  daily, monthly,          \* the two jobs
  acked, receives,         \* per event: taken off the queue, times delivered
  delta,                   \* per event: what it counts
  unchecked,     \* (history) per month: what was counted without a limit
  interrupted,   \* (history) months whose clamping was cut off by a crash
  summaries,     \* (history) per month: usage.monthly_summary events saved
  cleared,       \* (history) months whose counter was deleted
  warnings,      \* (history) per threshold: usage.threshold_crossed events saved
  clears,        \* (history) per threshold: times its flag was cleared
  ops, faults    \* budgets spent

redis == <<counter, listed, flags>>
queue == <<acked, receives, delta>>
given == <<account, redisLimit>>
jobs == <<daily, monthly>>
reports == <<summaries, cleared, warnings, clears>>
vars == <<today, given, redis, rows, pc, task, jobs, queue, unchecked, interrupted,
          reports, ops, faults>>

MonthOf(day) == day \div MonthDays
Days == 0 .. MaxDay
Months == 0 .. MonthOf(MaxDay)
LastDayOf(month) == (month + 1) * MonthDays - 1

Now == MonthOf(today)
PlanLimit == LimitOf(account, Plans)

Task == [kind   : {"none", "limited", "decrement", "event"},
         amount : Int,
         event  : Events \cup {Null},
         month  : Months,
         day    : Days,
         copy   : Int \cup {Null}]

NoTask == [kind |-> "none", amount |-> 0, event |-> Null, month |-> 0, day |-> 0,
           copy |-> Null]

\* A job: its next step, the attempts that failed, whether it is due, and what
\* the run has read.
Job == [step : {"idle", "read", "find", "save", "warn", "report", "clear", "unflag",
                "finish"},
        due : BOOLEAN, attempts : 0 .. MaxAttempts - 1, day : Days, month : Months,
        usage : Int, copy : Int \cup {Null}, todo : SUBSET Thresholds]

NoJob == [step |-> "idle", due |-> FALSE, attempts |-> 0, day |-> 0, month |-> 0,
          usage |-> 0, copy |-> Null, todo |-> {}]

Init ==
  /\ today = 0
  /\ account \in Accounts
  /\ redisLimit \in RedisLimits
  /\ counter = [m \in Months |-> 0]
  /\ listed = FALSE
  /\ flags = {}
  /\ rows = [d \in Days |-> Null]
  /\ pc = [h \in Handlers |-> "idle"]
  /\ task = [h \in Handlers |-> NoTask]
  /\ daily = NoJob
  /\ monthly = NoJob
  /\ acked = {}
  /\ receives = [e \in Events |-> 0]
  /\ delta \in [Events -> Deltas]
  /\ unchecked = [m \in Months |-> 0]
  /\ interrupted = {}
  /\ summaries = [m \in Months |-> 0]
  /\ cleared = {}
  /\ warnings = [t \in Thresholds |-> 0]
  /\ clears = [t \in Thresholds |-> 0]
  /\ ops = 0
  /\ faults = 0

\* A day begins, and the cron jobs of its midnight become due.  A reset is over,
\* with all its attempts, before the next month ends.
NextDay ==
  /\ today < MaxDay
  /\ MonthOf(today + 1) # Now => monthly.step = "idle" /\ ~monthly.due
  /\ today' = today + 1
  /\ daily' = [daily EXCEPT !.due = TRUE]
  /\ monthly' = [monthly EXCEPT !.due = @ \/ MonthOf(today + 1) # Now]
  /\ UNCHANGED <<given, redis, rows, pc, task, queue, unchecked, interrupted, reports,
                 ops, faults>>

-----------------------------------------------------------------------------
(* Requests and deliveries.                                                *)

Begin(h, kind, amount, e) ==
  /\ pc' = [pc EXCEPT ![h] = "count"]
  /\ task' = [task EXCEPT ![h] =
       [NoTask EXCEPT !.kind = kind, !.amount = amount, !.event = e]]

Return(h) ==
  /\ pc' = [pc EXCEPT ![h] = "idle"]
  /\ task' = [task EXCEPT ![h] = NoTask]

\* Faulty variant: the check only looks at the usage so far.
Admits_AtLimit(amount) ==
  BillingAllows(Enforced(account, Plans, today, counter[Now] - amount, amount, 0))

\* The check of the internal API and of BillingGuard; the usage it reads is
\* counted later, by the same request.
Admits(amount) ==
  BillingAllows(Enforced(account, Plans, today, counter[Now], amount, 0))

Check(h) ==
  /\ pc[h] = "idle" /\ ops < MaxOps
  /\ \E amount \in 1 .. MaxAmount :
        Admits(amount) /\ Begin(h, "limited", amount, Null)
  /\ ops' = ops + 1
  /\ UNCHANGED <<today, given, redis, rows, jobs, queue, unchecked, interrupted,
                 reports, faults>>

Decrement(h) ==
  /\ pc[h] = "idle" /\ ops < MaxOps
  /\ \E amount \in 1 .. MaxAmount : Begin(h, "decrement", - amount, Null)
  /\ ops' = ops + 1
  /\ UNCHANGED <<today, given, redis, rows, jobs, queue, unchecked, interrupted,
                 reports, faults>>

\* An event is on the queue and no consumer holds it.
Deliverable(e) ==
  /\ e \notin acked /\ receives[e] < MaxReceives
  /\ \A g \in Handlers : task[g].event # e

\* SQS delivers a referral event.  The decorator finds no idempotency service in
\* this consumer and checks nothing.
Deliver(h, e) ==
  /\ pc[h] = "idle" /\ ops < MaxOps
  /\ Deliverable(e)
  /\ receives' = [receives EXCEPT ![e] = @ + 1]
  /\ Begin(h, "event", delta[e], e)
  /\ ops' = ops + 1
  /\ UNCHANGED <<today, given, redis, rows, jobs, acked, delta, unchecked, interrupted,
                 reports, faults>>

\* INCRBY on the counter of the month of this moment.
Increment(h) ==
  /\ pc[h] = "count" /\ task[h].amount > 0
  /\ counter' = [counter EXCEPT ![Now] = @ + task[h].amount]
  /\ unchecked' = IF task[h].kind = "event"
                  THEN [unchecked EXCEPT ![Now] = @ + task[h].amount]
                  ELSE unchecked
  /\ pc' = [pc EXCEPT ![h] = "list"]
  /\ task' = [task EXCEPT ![h] = [@ EXCEPT !.month = Now, !.day = today]]
  /\ UNCHANGED <<today, given, listed, flags, rows, jobs, queue, interrupted, reports,
                 ops, faults>>

\* Faulty variant: what falls to zero is clamped, what falls below is not.
AfterDecrease_OffByOne(value) == IF value = 0 THEN "clamp" ELSE "list"

AfterDecrease(value) == IF value < 0 THEN "clamp" ELSE "list"

\* DECRBY; a negative value is set to 0 by a second command.
Decrease(h) ==
  /\ pc[h] = "count" /\ task[h].amount < 0
  /\ counter' = [counter EXCEPT ![Now] = @ + task[h].amount]
  /\ pc' = [pc EXCEPT ![h] = AfterDecrease(counter[Now] + task[h].amount)]
  /\ task' = [task EXCEPT ![h] = [@ EXCEPT !.month = Now, !.day = today]]
  /\ UNCHANGED <<today, given, listed, flags, rows, jobs, queue, unchecked, interrupted,
                 reports, ops, faults>>

AfterRedis(h) == IF task[h].kind = "event" THEN "log" ELSE "find"

Clamp(h) ==
  /\ pc[h] = "clamp"
  /\ counter' = [counter EXCEPT ![task[h].month] = 0]
  /\ pc' = [pc EXCEPT ![h] = AfterRedis(h)]
  /\ UNCHANGED <<today, given, listed, flags, rows, task, jobs, queue, unchecked,
                 interrupted, reports, ops, faults>>

\* SADD of the metric, which the jobs find it by.
List(h) ==
  /\ pc[h] = "list"
  /\ listed' = TRUE
  /\ pc' = [pc EXCEPT ![h] = AfterRedis(h)]
  /\ UNCHANGED <<today, given, counter, flags, rows, task, jobs, queue, unchecked,
                 interrupted, reports, ops, faults>>

\* getOrCreateUsageRow of the tracker.
Find(h) ==
  /\ pc[h] = "find"
  /\ task' = [task EXCEPT ![h] = [@ EXCEPT !.copy = rows[task[h].day]]]
  /\ pc' = [pc EXCEPT ![h] = "save"]
  /\ UNCHANGED <<today, given, redis, rows, jobs, queue, unchecked, interrupted, reports,
                 ops, faults>>

\* A new row whose key has been taken in the meantime: the unique index on
\* tenant, metric and day refuses it.
Conflicts(copy, day) == copy = Null /\ rows[day] # Null

Counted(copy, amount) ==
  LET sum == (IF copy = Null THEN 0 ELSE copy) + amount
  IN  IF amount < 0 /\ sum < 0 THEN 0 ELSE sum

Save(h) ==
  /\ pc[h] = "save"
  /\ rows' = IF Conflicts(task[h].copy, task[h].day) THEN rows
             ELSE [rows EXCEPT ![task[h].day] = Counted(task[h].copy, task[h].amount)]
  /\ Return(h)
  /\ UNCHANGED <<today, given, redis, jobs, queue, unchecked, interrupted, reports, ops,
                 faults>>

\* The consumer's billing event.  Without a tenant in the context the
\* repository throws and the event stays on the queue, counted.
Log(h) ==
  /\ pc[h] = "log"
  /\ \E context \in ConsumerContexts :
        acked' = IF context THEN acked \cup {task[h].event} ELSE acked
  /\ Return(h)
  /\ UNCHANGED <<today, given, redis, rows, jobs, receives, delta, unchecked,
                 interrupted, reports, ops, faults>>

\* A command fails or the process ends.
Crash(h) ==
  /\ pc[h] # "idle" /\ faults < MaxFaults
  /\ faults' = faults + 1
  /\ interrupted' = IF pc[h] = "clamp" THEN interrupted \cup {task[h].month}
                    ELSE interrupted
  /\ Return(h)
  /\ UNCHANGED <<today, given, redis, rows, jobs, queue, unchecked, reports, ops>>

-----------------------------------------------------------------------------
(* The jobs.                                                               *)

\* Faulty variant: a job that throws is never tried again.
Retried_Never(job) == [NoJob EXCEPT !.due = job.due]

Completed(job) == [NoJob EXCEPT !.due = job.due]

\* Faulty variant: an attempt too many.
Retried_TooOften(job) ==
  IF job.attempts < MaxAttempts
  THEN [NoJob EXCEPT !.due = TRUE, !.attempts = job.attempts + 1]
  ELSE Completed(job)

\* The job has thrown, or its worker died.
Retried(job) ==
  IF job.attempts + 1 < MaxAttempts
  THEN [NoJob EXCEPT !.due = TRUE, !.attempts = job.attempts + 1]
  ELSE Completed(job)

Smallest(S) == CHOOSE t \in S : \A u \in S : t <= u

\* After the last of a job's thresholds only BullMQ's record of the job is left.
Without(job, t, step) ==
  [job EXCEPT !.step = IF job.todo = {t} THEN "finish" ELSE step, !.todo = @ \ {t}]

\* The daily snapshot looks up the metrics and reads the counter of a listed one.
DailyStart ==
  /\ daily.step = "idle" /\ daily.due
  /\ daily' = IF listed
              THEN [daily EXCEPT !.step = "find", !.due = FALSE, !.day = today,
                                 !.usage = counter[Now]]
              ELSE Completed([daily EXCEPT !.due = FALSE])
  /\ UNCHANGED <<today, given, redis, rows, pc, task, monthly, queue, unchecked,
                 interrupted, reports, ops, faults>>

DailyFind ==
  /\ daily.step = "find"
  /\ daily' = [daily EXCEPT !.step = "save", !.copy = rows[daily.day]]
  /\ UNCHANGED <<today, given, redis, rows, pc, task, monthly, queue, unchecked,
                 interrupted, reports, ops, faults>>

Crossed(usage) ==
  IF redisLimit = Null \/ redisLimit = 0 THEN {}
  ELSE {t \in Thresholds : usage * 100 >= t * redisLimit}

DailySave ==
  /\ daily.step = "save"
  /\ IF Conflicts(daily.copy, daily.day)
     THEN rows' = rows /\ daily' = Retried(daily)
     ELSE /\ rows' = [rows EXCEPT ![daily.day] = daily.usage]
          /\ daily' = IF Crossed(daily.usage) = {} THEN [daily EXCEPT !.step = "finish"]
                      ELSE [daily EXCEPT !.step = "warn", !.todo = Crossed(daily.usage)]
  /\ UNCHANGED <<today, given, redis, pc, task, monthly, queue, unchecked, interrupted,
                 reports, ops, faults>>

\* Faulty variant: the flag is not set.
Marked_Not(t) == flags

Marked(t) == flags \cup {t}

\* The threshold is flagged before its event is saved.
DailyWarn ==
  /\ daily.step = "warn"
  /\ LET t == Smallest(daily.todo) IN
       /\ flags' = Marked(t)
       /\ daily' = IF t \in flags THEN Without(daily, t, "warn")
                   ELSE [daily EXCEPT !.step = "report"]
  /\ UNCHANGED <<today, given, counter, listed, rows, pc, task, monthly, queue, unchecked,
                 interrupted, reports, ops, faults>>

DailyReport ==
  /\ daily.step = "report"
  /\ LET t == Smallest(daily.todo) IN
       /\ warnings' = [warnings EXCEPT ![t] = @ + 1]
       /\ daily' = Without(daily, t, "warn")
  /\ UNCHANGED <<today, given, redis, rows, pc, task, monthly, queue, unchecked,
                 interrupted, summaries, cleared, clears, ops, faults>>

DailyFinish ==
  /\ daily.step = "finish"
  /\ daily' = Completed(daily)
  /\ UNCHANGED <<today, given, redis, rows, pc, task, monthly, queue, unchecked,
                 interrupted, reports, ops, faults>>

DailyFails ==
  /\ daily.step # "idle" /\ faults < MaxFaults
  /\ faults' = faults + 1
  /\ daily' = Retried(daily)
  /\ UNCHANGED <<today, given, redis, rows, pc, task, monthly, queue, unchecked,
                 interrupted, reports, ops>>

\* Faulty variant: the month that has just begun.
ClosedMonth_Current(day) == MonthOf(day)

\* getPreviousCalendarMonth
ClosedMonth(day) == MonthOf(day) - 1

\* For a listed metric the reset takes the row of the month's last day, when there
\* is one, else the counter.
MonthlyStart ==
  /\ monthly.step = "idle" /\ monthly.due
  /\ LET month == ClosedMonth(today)
         snapshot == rows[LastDayOf(month)]
         found == [monthly EXCEPT !.step = IF snapshot = Null THEN "read" ELSE "save",
                                  !.due = FALSE, !.month = month,
                                  !.usage = IF snapshot = Null THEN 0 ELSE snapshot]
     IN  monthly' = IF listed THEN found ELSE Completed([monthly EXCEPT !.due = FALSE])
  /\ UNCHANGED <<today, given, redis, rows, pc, task, daily, queue, unchecked,
                 interrupted, reports, ops, faults>>

MonthlyRead ==
  /\ monthly.step = "read"
  /\ monthly' = [monthly EXCEPT !.step = "save", !.usage = counter[monthly.month]]
  /\ UNCHANGED <<today, given, redis, rows, pc, task, daily, queue, unchecked,
                 interrupted, reports, ops, faults>>

\* The usage.monthly_summary event.
MonthlySave ==
  /\ monthly.step = "save"
  /\ summaries' = [summaries EXCEPT ![monthly.month] = @ + 1]
  /\ monthly' = [monthly EXCEPT !.step = "clear"]
  /\ UNCHANGED <<today, given, redis, rows, pc, task, daily, queue, unchecked,
                 interrupted, cleared, warnings, clears, ops, faults>>

\* Faulty variant: the counter of the running month is cleared.
ResetMonth_Running == Now

ResetMonth == monthly.month

MonthlyClear ==
  /\ monthly.step = "clear"
  /\ counter' = [counter EXCEPT ![ResetMonth] = 0]
  /\ cleared' = cleared \cup {ResetMonth}
  /\ monthly' = [monthly EXCEPT !.step = "unflag", !.todo = Thresholds]
  /\ UNCHANGED <<today, given, listed, flags, rows, pc, task, daily, queue, unchecked,
                 interrupted, summaries, warnings, clears, ops, faults>>

MonthlyUnflag ==
  /\ monthly.step = "unflag"
  /\ LET t == Smallest(monthly.todo) IN
       /\ flags' = flags \ {t}
       /\ clears' = [clears EXCEPT ![t] = @ + 1]
       /\ monthly' = Without(monthly, t, "unflag")
  /\ UNCHANGED <<today, given, counter, listed, rows, pc, task, daily, queue, unchecked,
                 interrupted, summaries, cleared, warnings, ops, faults>>

MonthlyFinish ==
  /\ monthly.step = "finish"
  /\ monthly' = Completed(monthly)
  /\ UNCHANGED <<today, given, redis, rows, pc, task, daily, queue, unchecked,
                 interrupted, reports, ops, faults>>

MonthlyFails ==
  /\ monthly.step # "idle" /\ faults < MaxFaults
  /\ faults' = faults + 1
  /\ monthly' = Retried(monthly)
  /\ UNCHANGED <<today, given, redis, rows, pc, task, daily, queue, unchecked,
                 interrupted, reports, ops>>

Handle(h) ==
  \/ Check(h) \/ Decrement(h) \/ (\E e \in Events : Deliver(h, e))
  \/ Increment(h) \/ Decrease(h) \/ Clamp(h) \/ List(h) \/ Find(h) \/ Save(h) \/ Log(h)

DailySteps ==
  \/ DailyStart \/ DailyFind \/ DailySave \/ DailyWarn \/ DailyReport \/ DailyFinish

MonthlySteps ==
  \/ MonthlyStart \/ MonthlyRead \/ MonthlySave \/ MonthlyClear
  \/ MonthlyUnflag \/ MonthlyFinish

Next ==
  \/ NextDay
  \/ \E h \in Handlers : Handle(h) \/ Crash(h)
  \/ DailySteps \/ DailyFails
  \/ MonthlySteps \/ MonthlyFails

Spec == Init /\ [][Next]_vars

\* A worker goes on with the job it has.
FairSpec == Spec /\ WF_vars(MonthlySteps)

-----------------------------------------------------------------------------
(* Properties.                                                             *)

\* Counters, rows, tasks, jobs and histories keep their types; counters and the
\* rows copied from them may be negative.
TypeOK ==
  /\ today \in Days
  /\ account \in Accounts /\ redisLimit \in RedisLimits
  /\ counter \in [Months -> Int]
  /\ listed \in BOOLEAN
  /\ flags \subseteq Thresholds
  /\ rows \in [Days -> Int \cup {Null}]
  /\ pc \in [Handlers -> {"idle", "count", "clamp", "list", "find", "save", "log"}]
  /\ task \in [Handlers -> Task]
  /\ daily \in Job /\ monthly \in Job
  /\ acked \subseteq Events
  /\ receives \in [Events -> 0 .. MaxReceives]
  /\ delta \in [Events -> Deltas]
  /\ unchecked \in [Months -> Nat]
  /\ interrupted \subseteq Months
  /\ summaries \in [Months -> Nat]
  /\ cleared \subseteq Months
  /\ warnings \in [Thresholds -> Nat] /\ clears \in [Thresholds -> Nat]
  /\ ops \in 0 .. MaxOps /\ faults \in 0 .. MaxFaults

\* A counter is negative only while a request that decremented it is about to
\* set it to 0, or after a crash between the two commands.
NegativeIsClamped ==
  \A m \in Months :
    counter[m] < 0 =>
      m \in interrupted \/ \E h \in Handlers : pc[h] = "clamp" /\ task[h].month = m

\* Requests are checked first and counted later, so a limit can be overrun, but only
\* by what the other handlers may have been admitted with; events, which nothing
\* checks, come on top.  (A clamping cut off by a crash leaves a negative counter,
\* which admits more.)
OvershootBounded ==
  PlanLimit # Null /\ interrupted = {} =>
    \A m \in Months :
      counter[m] <= PlanLimit + MaxAmount * (Cardinality(Handlers) - 1) + unchecked[m]

\* A month's counter is deleted only once a summary of that month is saved,
\* whatever is retried.
ClearedIsSummarised == \A m \in cleared : summaries[m] > 0

\* Between two resets a threshold is reported at most once, although the daily
\* job may be retried and may run while the reset clears the flags.
WarnedOnce == \A t \in Thresholds : warnings[t] <= clears[t] + 1

MonthOver(m) == today = LastDayOf(m) + 1 /\ monthly.due /\ listed

\* A month of a listed metric gets its summary, although an attempt may fail.
MonthIsSummarised ==
  \A m \in {n \in Months : LastDayOf(n) < MaxDay} : MonthOver(m) ~> summaries[m] > 0
=============================================================================
