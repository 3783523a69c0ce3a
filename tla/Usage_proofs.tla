---------------------------- MODULE Usage_proofs ----------------------------
(***************************************************************************)
(* Proofs about the use of a plan and about the plans.                     *)
(***************************************************************************)
EXTENDS MCUsage, FiniteSetTheorems, WellFoundedInduction, TLAPS

-----------------------------------------------------------------------------
(* Proofs about UsageMetering, for any handlers, events, plans, limits,    *)
(* thresholds and amounts, and for months of any length.                   *)

\* A reset only runs after a month is over, and a job that goes through thresholds has
\* one left.
JobsOK ==
  /\ monthly.due \/ monthly.step # "idle" => Now >= 1
  /\ daily.step \in {"warn", "report"} => daily.todo # {}
  /\ monthly.step = "unflag" => monthly.todo # {}

\* What is counted knows its kind: requests that were admitted count up, withdrawals
\* count down.
KindsOK ==
  \A h \in Handlers :
    /\ pc[h] = "count" => task[h].kind \in {"limited", "decrement", "event"}
    /\ task[h].kind = "limited" => task[h].amount \in 1 .. MaxAmount
    /\ task[h].kind = "decrement" => task[h].amount < 0
    /\ task[h].kind = "event" => task[h].event \in Events
    /\ pc[h] = "log" => task[h].kind = "event"

Typed == TypeOK /\ JobsOK /\ KindsOK

-----------------------------------------------------------------------------
(* Months.                                                                 *)

LEMMA TimesGrows == ASSUME NEW a \in Nat, NEW b \in Nat, NEW c \in Nat, a <= b
                    PROVE  a * c <= b * c
  OBVIOUS

LEMMA MonthBounds ==
  ASSUME NEW d \in Nat
  PROVE  /\ MonthOf(d) \in Nat
         /\ MonthOf(d) * MonthDays <= d
         /\ d < (MonthOf(d) + 1) * MonthDays
  BY BoundsAssumption DEF MonthOf

LEMMA MonthGrows ==
  ASSUME NEW d \in Nat, NEW e \in Nat, d <= e
  PROVE  MonthOf(d) <= MonthOf(e)
  <1> SUFFICES ASSUME MonthOf(e) < MonthOf(d) PROVE FALSE
    BY MonthBounds
  <1>1. (MonthOf(e) + 1) * MonthDays <= MonthOf(d) * MonthDays
    BY MonthBounds, TimesGrows, BoundsAssumption
  <1> QED
    BY <1>1, MonthBounds, BoundsAssumption

\* The month of a day that is looked at, the month before it, and that month's last day.
LEMMA NowIsMonth ==
  ASSUME NEW d \in Days
  PROVE  /\ MonthOf(d) \in Months
         /\ MonthOf(d) >= 1 => ClosedMonth(d) \in Months /\ LastDayOf(ClosedMonth(d)) \in Days
  <1>1. d \in Nat /\ d <= MaxDay /\ MaxDay \in Nat
    BY BoundsAssumption DEF Days
  <1>2. MonthOf(d) \in Months
    BY <1>1, MonthBounds, MonthGrows DEF Months
  <1>3. ASSUME MonthOf(d) >= 1
        PROVE  ClosedMonth(d) \in Months /\ LastDayOf(ClosedMonth(d)) \in Days
    <2>1. ClosedMonth(d) \in Nat /\ ClosedMonth(d) + 1 = MonthOf(d)
      BY <1>1, <1>3, MonthBounds DEF ClosedMonth
    <2>2. ClosedMonth(d) \in Months
      BY <1>2, <2>1, <1>1, MonthBounds DEF Months
    <2>3. MonthOf(d) * MonthDays <= d /\ 1 * MonthDays <= MonthOf(d) * MonthDays
      BY <1>1, <1>3, MonthBounds, TimesGrows, BoundsAssumption
    <2>4. LastDayOf(ClosedMonth(d)) \in Days
      BY <2>1, <2>3, <1>1, MonthBounds, BoundsAssumption DEF LastDayOf, Days
    <2> QED
      BY <2>2, <2>4
  <1> QED
    BY <1>2, <1>3

LEMMA SmallestIn == ASSUME NEW S \in SUBSET Nat, S # {} PROVE Smallest(S) \in S
  <1> DEFINE R == {ss \in Nat \X Nat : ss[1] < ss[2]}
  <1>1. IsWellFoundedOn(R, Nat)
    BY NatLessThanWellFounded DEF OpToRel
  <1>2. PICK n \in S : \A m \in S : <<m, n>> \notin R
    BY <1>1, WFMin
  <1>3. ASSUME NEW m \in S PROVE n <= m
    <2>1. <<m, n>> \in Nat \X Nat /\ <<m, n>> \notin R
      BY <1>2
    <2> QED
      BY <2>1
  <1> QED
    BY <1>3 DEF Smallest

-----------------------------------------------------------------------------
(* Types.                                                                  *)

LEMMA NoTaskType == NoTask \in Task /\ NoTask.kind = "none" /\ NoTask.event = Null
  BY BoundsAssumption, MonthBounds DEF NoTask, Task, Months, Days

LEMMA NoJobType == NoJob \in Job /\ NoJob.step = "idle" /\ ~NoJob.due
  <1>1. 0 \in Days /\ 0 \in Months /\ 0 \in 0 .. MaxAttempts - 1 /\ 0 \in Int
    BY BoundsAssumption, MonthBounds DEF Months, Days
  <1> QED
    BY <1>1 DEF NoJob, Job

LEMMA EndOfJob ==
  ASSUME NEW job \in Job
  PROVE  /\ Completed(job) \in Job /\ Completed(job).step = "idle" /\ Completed(job).due = job.due
         /\ Retried(job) \in Job /\ Retried(job).step = "idle"
  <1>1. /\ Completed(job) \in Job /\ Completed(job).step = "idle"
        /\ Completed(job).due = job.due
    BY NoJobType DEF Completed, Job
  <1>2. CASE job.attempts + 1 < MaxAttempts
    <2>1. job.attempts + 1 \in 0 .. MaxAttempts - 1
      BY <1>2, BoundsAssumption DEF Job
    <2>2. Retried(job) = [[NoJob EXCEPT !.due = TRUE] EXCEPT !.attempts = job.attempts + 1]
      BY <1>2 DEF Retried
    <2>3. [NoJob EXCEPT !.due = TRUE] \in Job /\ [NoJob EXCEPT !.due = TRUE].step = "idle"
      BY NoJobType DEF Job
    <2> QED
      BY <1>1, <2>1, <2>2, <2>3 DEF Job
  <1>3. CASE ~(job.attempts + 1 < MaxAttempts)
    BY <1>1, <1>3 DEF Retried
  <1> QED
    BY <1>2, <1>3

LEMMA WithoutType ==
  ASSUME NEW job \in Job, NEW t \in job.todo, NEW step \in {"warn", "unflag"}
  PROVE  LET rest == Without(job, t, step)
         IN  /\ rest \in Job /\ rest.step \in {step, "finish"} /\ rest.due = job.due
             /\ rest.step = step => rest.todo # {}
  BY DEF Without, Job

LEMMA InitTyped == Init => Typed
  <1> SUFFICES ASSUME Init PROVE Typed
    OBVIOUS
  <1>1. 0 \in Days /\ 0 \in Int /\ MonthOf(0) \in Nat
    BY BoundsAssumption, MonthBounds DEF Days
  <1>2. /\ today \in Days /\ account \in Accounts /\ redisLimit \in RedisLimits
        /\ ops \in 0 .. MaxOps /\ faults \in 0 .. MaxFaults
    BY <1>1, BoundsAssumption DEF Init
  <1>3. /\ counter \in [Months -> Int] /\ rows \in [Days -> Int \cup {Null}]
        /\ unchecked \in [Months -> Nat] /\ summaries \in [Months -> Nat]
        /\ warnings \in [Thresholds -> Nat] /\ clears \in [Thresholds -> Nat]
    BY DEF Init
  <1>4. /\ task \in [Handlers -> Task] /\ daily \in Job /\ monthly \in Job
        /\ pc \in [Handlers -> {"idle", "count", "clamp", "list", "find", "save", "log"}]
    BY NoTaskType, NoJobType DEF Init
  <1>5. /\ acked \subseteq Events /\ delta \in [Events -> Deltas]
        /\ listed \in BOOLEAN /\ flags \subseteq Thresholds
        /\ interrupted \subseteq Months /\ cleared \subseteq Months
    BY DEF Init
  <1>6. receives \in [Events -> 0 .. MaxReceives]
    BY BoundsAssumption DEF Init
  <1>7. TypeOK
    BY <1>2, <1>3, <1>4, <1>5, <1>6 DEF TypeOK
  <1>8. JobsOK /\ KindsOK
    BY NoTaskType, NoJobType DEF Init, JobsOK, KindsOK
  <1> QED
    BY <1>7, <1>8 DEF Typed

LEMMA NextDayTyped == ASSUME Typed, NextDay PROVE Typed'
  <1> USE DEF Typed
  <1>1. today \in Nat /\ today + 1 \in Days
    BY BoundsAssumption DEF NextDay, TypeOK, Days
  <1>2. MonthOf(today) \in Nat /\ MonthOf(today + 1) \in Nat /\ MonthOf(today) <= MonthOf(today + 1)
    BY <1>1, MonthBounds, MonthGrows
  <1>3. TypeOK'
    BY <1>1 DEF NextDay, TypeOK, Job, given, redis, queue, reports
  <1>4. JobsOK'
    BY <1>2 DEF NextDay, TypeOK, JobsOK, Now, Job
  <1>5. KindsOK'
    BY DEF NextDay, KindsOK
  <1> QED
    BY <1>3, <1>4, <1>5

\* The requests, but for what they do to the tasks, leave most as it is.
LEMMA HandlerTypes ==
  ASSUME Typed, NEW h \in Handlers, Handle(h) \/ Crash(h)
  PROVE  TypeOK' /\ JobsOK'
  <1> USE DEF Typed
  <1>1. today \in Days /\ Now \in Months /\ task[h] \in Task
    BY NowIsMonth DEF TypeOK, Now
  <1>2. JobsOK'
    BY DEF Handle, Check, Decrement, Deliver, Increment, Decrease, Clamp, List, Find, Save, Log,
           Crash, JobsOK, Now, jobs
  <1>3. ASSUME NEW kind \in {"limited", "decrement", "event"}, NEW amount \in Int,
               NEW e \in Events \cup {Null}, Begin(h, kind, amount, e)
        PROVE  pc' \in [Handlers -> {"idle", "count", "clamp", "list", "find", "save", "log"}]
               /\ task' \in [Handlers -> Task]
    BY <1>3, NoTaskType DEF Begin, TypeOK, Task
  <1>4. ASSUME Return(h)
        PROVE  pc' \in [Handlers -> {"idle", "count", "clamp", "list", "find", "save", "log"}]
               /\ task' \in [Handlers -> Task]
    BY <1>4, NoTaskType DEF Return, TypeOK
  <1>5. CASE Check(h)
    BY <1>2, <1>3, <1>5, BoundsAssumption DEF Check, TypeOK, given, redis, jobs, queue, reports
  <1>6. CASE Decrement(h)
    BY <1>2, <1>3, <1>6, BoundsAssumption DEF Decrement, TypeOK, given, redis, jobs, queue, reports
  <1>7. ASSUME NEW e \in Events, Deliver(h, e) PROVE TypeOK'
    <2>1. delta[e] \in Int
      BY DataAssumption DEF TypeOK
    <2> QED
      BY <1>3, <1>7, <2>1, BoundsAssumption
      DEF Deliver, Deliverable, TypeOK, given, redis, jobs, reports
  <1>8. CASE Increment(h)
    <2>1. task' \in [Handlers -> Task]
      BY <1>1, <1>8 DEF Increment, TypeOK, Task
    <2>2. task[h].amount \in Nat
      BY <1>1, <1>8 DEF Increment, Task
    <2> QED
      BY <1>1, <1>2, <1>8, <2>1, <2>2 DEF Increment, TypeOK, given, jobs, queue, reports
  <1>9. CASE Decrease(h)
    <2>1. task' \in [Handlers -> Task]
      BY <1>1, <1>9 DEF Decrease, TypeOK, Task
    <2>2. task[h].amount \in Int
      BY <1>1 DEF Task
    <2> QED
      BY <1>1, <1>2, <1>9, <2>1, <2>2 DEF Decrease, AfterDecrease, TypeOK, given, jobs, queue, reports
  <1>10. CASE Clamp(h)
    BY <1>1, <1>2, <1>10 DEF Clamp, Task, AfterRedis, TypeOK, given, jobs, queue, reports
  <1>11. CASE List(h)
    BY <1>1, <1>2, <1>11 DEF List, AfterRedis, TypeOK, given, jobs, queue, reports
  <1>12. CASE Find(h)
    <2>1. task' \in [Handlers -> Task]
      BY <1>1, <1>12 DEF Find, TypeOK, Task
    <2> QED
      BY <1>1, <1>2, <1>12, <2>1 DEF Find, TypeOK, given, redis, jobs, queue, reports
  <1>13. CASE Save(h)
    BY <1>1, <1>2, <1>4, <1>13 DEF Save, Counted, Task, TypeOK, given, redis, jobs, queue, reports
  <1>14. CASE Log(h)
    <2>1. acked' \subseteq Events
      BY <1>14 DEF Log, TypeOK, KindsOK
    <2> QED
      BY <1>2, <1>4, <1>14, <2>1 DEF Log, TypeOK, given, redis, jobs, reports
  <1>15. CASE Crash(h)
    BY <1>1, <1>2, <1>4, <1>15, BoundsAssumption
    DEF Crash, Task, TypeOK, given, redis, jobs, queue, reports
  <1> QED
    BY <1>2, <1>5, <1>6, <1>7, <1>8, <1>9, <1>10, <1>11, <1>12, <1>13, <1>14, <1>15 DEF Handle

LEMMA HandlerKinds ==
  ASSUME Typed, NEW h \in Handlers, Handle(h) \/ Crash(h)
  PROVE  KindsOK'
  <1> USE DEF Typed
  <1>1. \A g \in Handlers \ {h} : pc'[g] = pc[g] /\ task'[g] = task[g]
    BY DEF Handle, Check, Decrement, Deliver, Begin, Return, Increment, Decrease, Clamp, List, Find,
           Save, Log, Crash, TypeOK
  <1>2. ASSUME NEW kind \in {"limited", "decrement", "event"}, NEW amount \in Int,
               NEW e \in Events \cup {Null}, Begin(h, kind, amount, e),
               kind = "limited" => amount \in 1 .. MaxAmount,
               kind = "decrement" => amount < 0, kind = "event" => e \in Events
        PROVE  KindsOK'
    <2>1. pc'[h] = "count" /\ task'[h] = [NoTask EXCEPT !.kind = kind, !.amount = amount, !.event = e]
      BY <1>2 DEF Begin, TypeOK
    <2>2. task'[h].kind = kind /\ task'[h].amount = amount /\ task'[h].event = e
      BY <2>1 DEF NoTask
    <2> QED
      BY <1>1, <1>2, <2>1, <2>2 DEF KindsOK
  <1>3. CASE Check(h) \/ Decrement(h) \/ \E e \in Events : Deliver(h, e)
    <2>1. CASE Check(h)
      BY <1>2, <2>1, BoundsAssumption DEF Check
    <2>2. CASE Decrement(h)
      BY <1>2, <2>2, BoundsAssumption DEF Decrement
    <2>3. ASSUME NEW e \in Events, Deliver(h, e) PROVE KindsOK'
      <3>1. delta[e] \in Int
        BY DataAssumption DEF TypeOK
      <3> QED
        BY <1>2, <2>3, <3>1 DEF Deliver
    <2> QED
      BY <1>3, <2>1, <2>2, <2>3
  <1>4. CASE Save(h) \/ Log(h) \/ Crash(h)
    <2>1. pc'[h] = "idle" /\ task'[h] = NoTask
      BY <1>4 DEF Save, Log, Crash, Return, TypeOK
    <2> QED
      BY <1>1, <2>1, NoTaskType DEF KindsOK
  <1>5. CASE Increment(h) \/ Decrease(h) \/ Clamp(h) \/ List(h) \/ Find(h)
    <2>1. /\ task'[h].kind = task[h].kind /\ task'[h].amount = task[h].amount
          /\ task'[h].event = task[h].event
      <3>1. task[h] \in Task /\ task \in [Handlers -> Task]
        BY DEF TypeOK
      <3>2. CASE Increment(h) \/ Decrease(h)
        BY <3>1, <3>2 DEF Increment, Decrease, Task
      <3>3. CASE Clamp(h) \/ List(h)
        BY <3>3 DEF Clamp, List
      <3>4. CASE Find(h)
        BY <3>1, <3>4 DEF Find, Task
      <3> QED
        BY <1>5, <3>2, <3>3, <3>4
    <2>2. pc'[h] # "count" /\ (pc'[h] = "log" => task[h].kind = "event")
      BY <1>5 DEF Increment, Decrease, AfterDecrease, Clamp, List, AfterRedis, Find, TypeOK
    <2> QED
      BY <1>1, <2>1, <2>2 DEF KindsOK
  <1> QED
    BY <1>3, <1>4, <1>5 DEF Handle

LEMMA DailyTyped == ASSUME Typed, DailySteps \/ DailyFails PROVE Typed'
  <1> USE DEF Typed
  <1>0. KindsOK'
    BY DEF DailySteps, DailyStart, DailyFind, DailySave, DailyWarn, DailyReport, DailyFinish,
           DailyFails, KindsOK
  <1>1. /\ daily \in Job /\ today \in Days /\ Now \in Months
        /\ daily.todo \in SUBSET Thresholds /\ daily.todo \in SUBSET Nat
    BY NowIsMonth, DataAssumption DEF TypeOK, Now, Job
  <1>2. (monthly.due \/ monthly.step # "idle" => Now >= 1)'
        /\ (monthly.step = "unflag" => monthly.todo # {})'
    BY DEF DailySteps, DailyStart, DailyFind, DailySave, DailyWarn, DailyReport, DailyFinish,
           DailyFails, JobsOK, Now
  <1>3. Completed(daily) \in Job /\ Completed(daily).step = "idle"
        /\ Retried(daily) \in Job /\ Retried(daily).step = "idle"
    BY <1>1, EndOfJob
  <1>4. CASE DailyStart
    <2>1. [daily EXCEPT !.due = FALSE] \in Job
      BY <1>1 DEF Job
    <2>2. Completed([daily EXCEPT !.due = FALSE]) \in Job
          /\ Completed([daily EXCEPT !.due = FALSE]).step = "idle"
      BY <2>1, EndOfJob
    <2>3. counter[Now] \in Int
      BY <1>1 DEF TypeOK
    <2>4. [daily EXCEPT !.step = "find", !.due = FALSE, !.day = today, !.usage = counter[Now]] \in Job
      BY <1>1, <2>3 DEF Job
    <2>5. daily' \in Job /\ daily'.step \in {"idle", "find"}
      BY <1>1, <1>4, <2>2, <2>4 DEF DailyStart, Job
    <2> QED
      BY <1>0, <1>2, <1>4, <2>5 DEF DailyStart, TypeOK, JobsOK, given, redis, queue, reports
  <1>5. CASE DailyFind
    <2>1. daily' \in Job /\ daily'.step = "save"
      BY <1>1, <1>5 DEF DailyFind, TypeOK, Job
    <2> QED
      BY <1>0, <1>2, <1>5, <2>1 DEF DailyFind, TypeOK, JobsOK, given, redis, queue, reports
  <1>6. CASE DailySave
    <2>1. Crossed(daily.usage) \in SUBSET Thresholds
      BY DEF Crossed
    <2>2. /\ daily' \in Job
          /\ daily'.step \in {"warn", "report"} => daily'.todo # {}
      <3>1. CASE daily' = Retried(daily)
        BY <1>3, <3>1
      <3>2. CASE daily' = [daily EXCEPT !.step = "finish"]
        BY <1>1, <3>2 DEF Job
      <3>3. CASE /\ Crossed(daily.usage) # {}
                 /\ daily' = [daily EXCEPT !.step = "warn", !.todo = Crossed(daily.usage)]
        <4> DEFINE crossed == Crossed(daily.usage)
        <4> HIDE DEF crossed
        <4>1. crossed \in SUBSET Thresholds /\ crossed # {}
          BY <2>1, <3>3 DEF crossed
        <4>2. daily' = [daily EXCEPT !.step = "warn", !.todo = crossed]
          BY <3>3 DEF crossed
        <4> QED
          BY <1>1, <4>1, <4>2 DEF Job
      <3> QED
        BY <1>6, <3>1, <3>2, <3>3 DEF DailySave
    <2>3. rows' \in [Days -> Int \cup {Null}]
      BY <1>1, <1>6 DEF DailySave, TypeOK, Job
    <2> QED
      BY <1>0, <1>2, <1>6, <2>2, <2>3 DEF DailySave, TypeOK, JobsOK, given, redis, queue, reports
  <1>7. CASE DailyWarn
    <2> DEFINE t == Smallest(daily.todo)
    <2>1. t \in daily.todo /\ t \in Thresholds
      BY <1>1, <1>7, SmallestIn DEF DailyWarn, JobsOK
    <2>2. flags' \subseteq Thresholds
      BY <1>7, <2>1 DEF DailyWarn, Marked, TypeOK
    <2>3. /\ Without(daily, t, "warn") \in Job
          /\ Without(daily, t, "warn").step \in {"warn", "finish"}
          /\ Without(daily, t, "warn").step = "warn" => Without(daily, t, "warn").todo # {}
      BY <1>1, <2>1, WithoutType
    <2>4. /\ [daily EXCEPT !.step = "report"] \in Job
          /\ [daily EXCEPT !.step = "report"].todo = daily.todo
      BY <1>1 DEF Job
    <2>5. daily' \in Job /\ (daily'.step \in {"warn", "report"} => daily'.todo # {})
      BY <1>7, <2>1, <2>3, <2>4 DEF DailyWarn
    <2> QED
      BY <1>0, <1>2, <1>7, <2>2, <2>5 DEF DailyWarn, TypeOK, JobsOK, given, queue, reports
  <1>8. CASE DailyReport
    <2> DEFINE t == Smallest(daily.todo)
    <2>1. t \in daily.todo /\ t \in Thresholds
      BY <1>1, <1>8, SmallestIn DEF DailyReport, JobsOK
    <2>2. /\ Without(daily, t, "warn") \in Job
          /\ Without(daily, t, "warn").step \in {"warn", "finish"}
          /\ Without(daily, t, "warn").step = "warn" => Without(daily, t, "warn").todo # {}
      BY <1>1, <2>1, WithoutType
    <2>3. warnings' \in [Thresholds -> Nat]
      BY <1>8, <2>1 DEF DailyReport, TypeOK
    <2>4. daily' = Without(daily, t, "warn")
      BY <1>8 DEF DailyReport
    <2> QED
      BY <1>0, <1>2, <1>8, <2>2, <2>3, <2>4 DEF DailyReport, TypeOK, JobsOK, given, redis, queue
  <1>9. CASE DailyFinish
    BY <1>0, <1>2, <1>3, <1>9 DEF DailyFinish, TypeOK, JobsOK, given, redis, queue, reports
  <1>10. CASE DailyFails
    BY <1>0, <1>2, <1>3, <1>10, BoundsAssumption DEF DailyFails, TypeOK, JobsOK, given, redis, queue, reports
  <1> QED
    BY <1>4, <1>5, <1>6, <1>7, <1>8, <1>9, <1>10 DEF DailySteps

LEMMA MonthlyTyped == ASSUME Typed, MonthlySteps \/ MonthlyFails PROVE Typed'
  <1> USE DEF Typed
  <1>0. KindsOK'
    BY DEF MonthlySteps, MonthlyStart, MonthlyRead, MonthlySave, MonthlyClear, MonthlyUnflag,
           MonthlyFinish, MonthlyFails, KindsOK
  <1>1. /\ monthly \in Job /\ today \in Days /\ monthly.month \in Months
        /\ monthly.todo \in SUBSET Thresholds /\ monthly.todo \in SUBSET Nat
        /\ Now >= 1
    BY NowIsMonth, DataAssumption
    DEF MonthlySteps, MonthlyStart, MonthlyRead, MonthlySave, MonthlyClear, MonthlyUnflag,
        MonthlyFinish, MonthlyFails, TypeOK, JobsOK, Now, Job
  <1>2. (daily.step \in {"warn", "report"} => daily.todo # {})' /\ (Now >= 1)'
    BY <1>1 DEF MonthlySteps, MonthlyStart, MonthlyRead, MonthlySave, MonthlyClear, MonthlyUnflag,
                MonthlyFinish, MonthlyFails, JobsOK, Now
  <1>3. /\ Completed(monthly) \in Job /\ Completed(monthly).step = "idle"
        /\ Retried(monthly) \in Job /\ Retried(monthly).step = "idle"
    BY <1>1, EndOfJob
  <1>4. CASE MonthlyStart
    <2> DEFINE month == ClosedMonth(today)
               snapshot == rows[LastDayOf(month)]
               found == [monthly EXCEPT !.step = IF snapshot = Null THEN "read" ELSE "save",
                                        !.due = FALSE, !.month = month,
                                        !.usage = IF snapshot = Null THEN 0 ELSE snapshot]
    <2>1. month \in Months /\ LastDayOf(month) \in Days
      BY <1>1, NowIsMonth DEF Now
    <2>2. snapshot \in Int \cup {Null}
      BY <2>1 DEF TypeOK
    <2>3. found \in Job /\ found.step \in {"read", "save"}
      <3>1. \A step \in {"read", "save"}, m \in Months, usage \in Int :
              LET job == [monthly EXCEPT !.step = step, !.due = FALSE, !.month = m, !.usage = usage]
              IN  job \in Job /\ job.step = step
        BY <1>1 DEF Job
      <3> HIDE DEF month, snapshot
      <3>2. (IF snapshot = Null THEN 0 ELSE snapshot) \in Int
            /\ (IF snapshot = Null THEN "read" ELSE "save") \in {"read", "save"}
        BY <2>2
      <3> QED
        BY <2>1, <3>1, <3>2
    <2>4. [monthly EXCEPT !.due = FALSE] \in Job
      BY <1>1 DEF Job
    <2>5. Completed([monthly EXCEPT !.due = FALSE]) \in Job
          /\ Completed([monthly EXCEPT !.due = FALSE]).step = "idle"
      BY <2>4, EndOfJob
    <2>6. monthly' \in Job /\ monthly'.step \in {"idle", "read", "save"}
      <3>1. monthly' = IF listed THEN found ELSE Completed([monthly EXCEPT !.due = FALSE])
        BY <1>4 DEF MonthlyStart
      <3> QED
        BY <2>3, <2>5, <3>1
    <2> QED
      BY <1>0, <1>2, <1>4, <2>6 DEF MonthlyStart, TypeOK, JobsOK, given, redis, queue, reports
  <1>5. CASE MonthlyRead
    <2>1. counter[monthly.month] \in Int
      BY <1>1 DEF TypeOK
    <2>2. monthly' \in Job /\ monthly'.step = "save"
      BY <1>1, <1>5, <2>1 DEF MonthlyRead, Job
    <2> QED
      BY <1>0, <1>2, <1>5, <2>2 DEF MonthlyRead, TypeOK, JobsOK, given, redis, queue, reports
  <1>6. CASE MonthlySave
    <2>1. monthly' \in Job /\ monthly'.step = "clear"
      BY <1>1, <1>6 DEF MonthlySave, Job
    <2>2. summaries' \in [Months -> Nat]
      BY <1>1, <1>6 DEF MonthlySave, TypeOK
    <2> QED
      BY <1>0, <1>2, <1>6, <2>1, <2>2 DEF MonthlySave, TypeOK, JobsOK, given, redis, queue
  <1>7. CASE MonthlyClear
    <2>1. monthly' \in Job /\ monthly'.step = "unflag" /\ monthly'.todo # {}
      BY <1>1, <1>7, DataAssumption DEF MonthlyClear, Job
    <2>2. counter' \in [Months -> Int] /\ cleared' \subseteq Months
      BY <1>1, <1>7 DEF MonthlyClear, ResetMonth, TypeOK
    <2> QED
      BY <1>0, <1>2, <1>7, <2>1, <2>2 DEF MonthlyClear, TypeOK, JobsOK, given, queue
  <1>8. CASE MonthlyUnflag
    <2> DEFINE t == Smallest(monthly.todo)
    <2>1. t \in monthly.todo /\ t \in Thresholds
      BY <1>1, <1>8, SmallestIn DEF MonthlyUnflag, JobsOK
    <2>2. /\ Without(monthly, t, "unflag") \in Job
          /\ Without(monthly, t, "unflag").step \in {"unflag", "finish"}
          /\ Without(monthly, t, "unflag").step = "unflag" => Without(monthly, t, "unflag").todo # {}
      BY <1>1, <2>1, WithoutType
    <2>3. clears' \in [Thresholds -> Nat] /\ flags' \subseteq Thresholds
      BY <1>8, <2>1 DEF MonthlyUnflag, TypeOK
    <2>4. monthly' = Without(monthly, t, "unflag")
      BY <1>8 DEF MonthlyUnflag
    <2> QED
      BY <1>0, <1>2, <1>8, <2>2, <2>3, <2>4 DEF MonthlyUnflag, TypeOK, JobsOK, given, queue
  <1>9. CASE MonthlyFinish
    BY <1>0, <1>2, <1>3, <1>9 DEF MonthlyFinish, TypeOK, JobsOK, given, redis, queue, reports
  <1>10. CASE MonthlyFails
    BY <1>0, <1>2, <1>3, <1>10, BoundsAssumption
    DEF MonthlyFails, TypeOK, JobsOK, given, redis, queue, reports
  <1> QED
    BY <1>4, <1>5, <1>6, <1>7, <1>8, <1>9, <1>10 DEF MonthlySteps

LEMMA StepTyped == ASSUME Typed, [Next]_vars PROVE Typed'
  <1>1. CASE UNCHANGED vars
    BY <1>1 DEF Typed, TypeOK, JobsOK, KindsOK, Now, vars, given, redis, jobs, queue, reports
  <1> QED
    BY <1>1, NextDayTyped, HandlerTypes, HandlerKinds, DailyTyped, MonthlyTyped DEF Next, Typed

LEMMA TypedHolds == Spec => []Typed
  <1>1. Typed /\ [Next]_vars => Typed'
    BY StepTyped
  <1> QED
    BY InitTyped, <1>1, PTL DEF Spec

\* Counters, rows, tasks, jobs and histories keep their types.
THEOREM TypeCorrect == Spec => []TypeOK
  <1>1. Typed => TypeOK
    BY DEF Typed
  <1> QED
    BY TypedHolds, <1>1, PTL

-----------------------------------------------------------------------------
(* A negative counter.                                                     *)

LEMMA HandlerClamps ==
  ASSUME Typed, NegativeIsClamped, NEW h \in Handlers, Handle(h) \/ Crash(h)
  PROVE  NegativeIsClamped'
  <1> USE DEF Typed
  <1>1. \A g \in Handlers \ {h} : pc'[g] = pc[g] /\ task'[g] = task[g]
    BY DEF Handle, Check, Decrement, Deliver, Begin, Return, Increment, Decrease, Clamp, List, Find,
           Save, Log, Crash, TypeOK
  <1>2. interrupted \subseteq interrupted'
    BY DEF Handle, Check, Decrement, Deliver, Increment, Decrease, Clamp, List, Find, Save, Log, Crash
  <1> SUFFICES ASSUME NEW m \in Months, counter'[m] < 0, m \notin interrupted'
               PROVE  \E g \in Handlers : pc'[g] = "clamp" /\ task'[g].month = m
    BY DEF NegativeIsClamped
  <1>3. ASSUME counter[m] < 0, pc[h] # "clamp"
        PROVE  \E g \in Handlers : pc'[g] = "clamp" /\ task'[g].month = m
    BY <1>1, <1>2, <1>3 DEF NegativeIsClamped
  <1>4. counter \in [Months -> Int] /\ task[h] \in Task /\ Now \in Months
    BY NowIsMonth DEF TypeOK, Now
  <1>5. CASE Check(h) \/ Decrement(h) \/ (\E e \in Events : Deliver(h, e)) \/ List(h) \/ Find(h)
             \/ Save(h) \/ Log(h)
    BY <1>3, <1>5 DEF Check, Decrement, Deliver, List, Find, Save, Log, redis
  <1>6. CASE Increment(h)
    BY <1>3, <1>4, <1>6 DEF Increment, Task
  <1>7. CASE Decrease(h)
    <2>1. CASE m = Now
      <3>1. counter[Now] + task[h].amount < 0
        BY <1>4, <1>7, <2>1 DEF Decrease
      <3>2. pc'[h] = "clamp" /\ task'[h].month = m
        BY <1>4, <1>7, <2>1, <3>1 DEF Decrease, AfterDecrease, TypeOK, Task
      <3> QED
        BY <3>2
    <2>2. CASE m # Now
      BY <1>3, <1>4, <1>7, <2>2 DEF Decrease
    <2> QED
      BY <2>1, <2>2
  <1>8. CASE Clamp(h)
    <2>1. task[h].month # m /\ counter[m] < 0
      BY <1>4, <1>8 DEF Clamp, Task
    <2>2. PICK g \in Handlers : pc[g] = "clamp" /\ task[g].month = m
      BY <1>2, <2>1 DEF NegativeIsClamped
    <2> QED
      BY <1>1, <2>1, <2>2
  <1>9. CASE Crash(h)
    <2>1. counter[m] < 0 /\ m \notin interrupted
      BY <1>2, <1>9 DEF Crash, redis
    <2>2. PICK g \in Handlers : pc[g] = "clamp" /\ task[g].month = m
      BY <2>1 DEF NegativeIsClamped
    <2>3. g # h
      BY <1>9, <2>2 DEF Crash
    <2> QED
      BY <1>1, <2>2, <2>3
  <1> QED
    BY <1>5, <1>6, <1>7, <1>8, <1>9 DEF Handle

LEMMA StepClamps == ASSUME Typed, NegativeIsClamped, [Next]_vars PROVE NegativeIsClamped'
  <1>1. CASE NextDay \/ DailySteps \/ DailyFails \/ UNCHANGED vars
    BY <1>1 DEF NextDay, DailySteps, DailyStart, DailyFind, DailySave, DailyWarn, DailyReport,
                DailyFinish, DailyFails, vars, redis, NegativeIsClamped
  <1>2. CASE MonthlySteps \/ MonthlyFails
    <2>1. UNCHANGED <<pc, task, interrupted>>
      BY <1>2 DEF MonthlySteps, MonthlyStart, MonthlyRead, MonthlySave, MonthlyClear, MonthlyUnflag,
                  MonthlyFinish, MonthlyFails
    <2>2. \A m \in Months : counter'[m] = counter[m] \/ counter'[m] = 0
      BY <1>2 DEF MonthlySteps, MonthlyStart, MonthlyRead, MonthlySave, MonthlyClear, MonthlyUnflag,
                  MonthlyFinish, MonthlyFails, redis, Typed, TypeOK
    <2> QED
      BY <2>1, <2>2 DEF NegativeIsClamped
  <1> QED
    BY <1>1, <1>2, HandlerClamps DEF Next

LEMMA ClampingHolds == Spec => [](Typed /\ NegativeIsClamped)
  <1>1. Init => NegativeIsClamped
    BY DEF Init, NegativeIsClamped
  <1>2. Typed /\ NegativeIsClamped /\ [Next]_vars => NegativeIsClamped'
    BY StepClamps
  <1> QED
    BY <1>1, <1>2, TypedHolds, PTL DEF Spec

\* A counter is negative only between the two commands of a decrement, or after a crash
\* between them, whatever other requests, events and jobs do to it meanwhile.
THEOREM NegativesAreClamped == Spec => []NegativeIsClamped
  BY ClampingHolds, PTL

-----------------------------------------------------------------------------
(* Summaries and warnings.                                                 *)

SummaryInv ==
  /\ ClearedIsSummarised
  /\ monthly.step = "clear" => summaries[monthly.month] > 0

LEMMA StepSummarises == ASSUME Typed, SummaryInv, [Next]_vars PROVE SummaryInv'
  <1> USE DEF Typed
  <1>1. CASE \/ NextDay \/ (\E h \in Handlers : Handle(h) \/ Crash(h)) \/ DailySteps \/ DailyFails
             \/ UNCHANGED vars
    <2>1. UNCHANGED <<summaries, cleared>> /\ monthly'.step = monthly.step
          /\ monthly'.month = monthly.month
      BY <1>1 DEF NextDay, Handle, Check, Decrement, Deliver, Increment, Decrease, Clamp, List, Find,
                  Save, Log, Crash, DailySteps, DailyStart, DailyFind, DailySave, DailyWarn,
                  DailyReport, DailyFinish, DailyFails, vars, jobs, reports, TypeOK, Job
    <2> QED
      BY <2>1 DEF SummaryInv, ClearedIsSummarised
  <1>2. monthly \in Job /\ monthly.month \in Months /\ summaries \in [Months -> Nat]
        /\ cleared \subseteq Months
    BY DEF TypeOK, Job
  <1>3. CASE MonthlySave
    <2>1. summaries' = [summaries EXCEPT ![monthly.month] = @ + 1] /\ cleared' = cleared
          /\ monthly'.month = monthly.month
      BY <1>2, <1>3 DEF MonthlySave, Job
    <2> QED
      BY <1>2, <2>1 DEF SummaryInv, ClearedIsSummarised
  <1>4. CASE MonthlyClear
    <2>1. summaries' = summaries /\ cleared' = cleared \cup {monthly.month}
          /\ monthly'.step = "unflag"
      BY <1>2, <1>4 DEF MonthlyClear, ResetMonth, Job
    <2> QED
      BY <1>2, <1>4, <2>1 DEF MonthlyClear, SummaryInv, ClearedIsSummarised
  <1>5. CASE MonthlyStart \/ MonthlyRead \/ MonthlyUnflag \/ MonthlyFinish \/ MonthlyFails
    <2>1. UNCHANGED <<summaries, cleared>>
      BY <1>5 DEF MonthlyStart, MonthlyRead, MonthlyUnflag, MonthlyFinish, MonthlyFails, reports
    <2>2. monthly'.step # "clear"
      <3>1. CASE MonthlyStart
        <4>1. [monthly EXCEPT !.due = FALSE] \in Job
          BY <1>2 DEF Job
        <4>2. Completed([monthly EXCEPT !.due = FALSE]).step = "idle"
          BY <4>1, EndOfJob
        <4> QED
          BY <1>2, <3>1, <4>2 DEF MonthlyStart, Job
      <3>2. CASE MonthlyRead
        BY <1>2, <3>2 DEF MonthlyRead, Job
      <3>3. CASE MonthlyUnflag
        BY <1>2, <3>3 DEF MonthlyUnflag, Without, Job
      <3>4. CASE MonthlyFinish \/ MonthlyFails
        BY <1>2, <3>4, EndOfJob DEF MonthlyFinish, MonthlyFails
      <3> QED
        BY <1>5, <3>1, <3>2, <3>3, <3>4
    <2> QED
      BY <2>1, <2>2 DEF SummaryInv, ClearedIsSummarised
  <1> QED
    BY <1>1, <1>3, <1>4, <1>5 DEF Next, MonthlySteps

\* A month's counter is deleted only once a summary of that month is saved, through any
\* number of failed attempts at the reset.
THEOREM ResetsAreSummarised == Spec => []ClearedIsSummarised
  <1>1. Init => SummaryInv
    BY NoJobType DEF Init, SummaryInv, ClearedIsSummarised
  <1>2. Typed /\ SummaryInv /\ [Next]_vars => SummaryInv'
    BY StepSummarises
  <1>3. SummaryInv => ClearedIsSummarised
    BY DEF SummaryInv
  <1> QED
    BY <1>1, <1>2, <1>3, TypedHolds, PTL DEF Spec

\* A warning that is about to be reported counts as reported.
Reporting(t) == daily.step = "report" /\ Smallest(daily.todo) = t

WarnedInv ==
  \A t \in Thresholds :
    warnings[t] + (IF Reporting(t) THEN 1 ELSE 0) <= clears[t] + (IF t \in flags THEN 1 ELSE 0)

LEMMA DailyWarnsOnce == ASSUME Typed, WarnedInv, DailySteps \/ DailyFails PROVE WarnedInv'
  <1> USE DEF Typed
  <1>1. /\ daily \in Job /\ daily.todo \in SUBSET Thresholds /\ daily.todo \in SUBSET Nat
        /\ warnings \in [Thresholds -> Nat] /\ clears \in [Thresholds -> Nat]
    BY DataAssumption DEF TypeOK, Job
  <1>2. CASE DailyWarn
    <2> DEFINE t == Smallest(daily.todo)
    <2>1. t \in daily.todo /\ t \in Thresholds
      BY <1>1, <1>2, SmallestIn DEF DailyWarn, JobsOK
    <2>2. warnings' = warnings /\ clears' = clears /\ flags' = flags \cup {t}
      BY <1>2 DEF DailyWarn, Marked, reports
    <2>3. CASE t \in flags
      <3>1. daily' = Without(daily, t, "warn")
        BY <1>2, <2>3 DEF DailyWarn
      <3>2. daily'.step # "report"
        BY <1>1, <2>1, <3>1, WithoutType
      <3> QED
        BY <1>1, <2>2, <2>3, <3>2 DEF WarnedInv, Reporting
    <2>4. CASE t \notin flags
      <3>1. daily' = [daily EXCEPT !.step = "report"]
        BY <1>2, <2>4 DEF DailyWarn
      <3>2. daily'.todo = daily.todo
        BY <1>1, <3>1 DEF Job
      <3>3. \A u \in Thresholds : Reporting(u)' => u = t
        BY <3>2 DEF Reporting
      <3>4. \A u \in Thresholds : ~Reporting(u)
        BY <1>2 DEF DailyWarn, Reporting
      <3> QED
        BY <1>1, <2>1, <2>2, <2>4, <3>3, <3>4 DEF WarnedInv
    <2> QED
      BY <2>3, <2>4
  <1>3. CASE DailyReport
    <2> DEFINE t == Smallest(daily.todo)
    <2>1. t \in daily.todo /\ t \in Thresholds
      BY <1>1, <1>3, SmallestIn DEF DailyReport, JobsOK
    <2>2. /\ warnings' = [warnings EXCEPT ![t] = @ + 1] /\ clears' = clears /\ flags' = flags
          /\ daily' = Without(daily, t, "warn")
      BY <1>3 DEF DailyReport, redis
    <2>3. \A u \in Thresholds : ~Reporting(u)'
      BY <1>1, <2>1, <2>2, WithoutType DEF Reporting
    <2>4. Reporting(t)
      BY <1>3 DEF DailyReport, Reporting
    <2> QED
      BY <1>1, <2>1, <2>2, <2>3, <2>4 DEF WarnedInv
  <1>4. CASE DailyStart \/ DailyFind \/ DailySave \/ DailyFinish \/ DailyFails
    <2>1. UNCHANGED <<warnings, clears, flags>>
      BY <1>4 DEF DailyStart, DailyFind, DailySave, DailyFinish, DailyFails, redis, reports
    <2>2. daily'.step # "report"
      <3>1. CASE DailyStart
        <4>1. [daily EXCEPT !.due = FALSE] \in Job
          BY <1>1 DEF Job
        <4>2. Completed([daily EXCEPT !.due = FALSE]).step = "idle"
          BY <4>1, EndOfJob
        <4> QED
          BY <1>1, <3>1, <4>2 DEF DailyStart, Job
      <3>2. CASE DailyFind
        BY <1>1, <3>2 DEF DailyFind, Job
      <3>3. CASE DailySave
        BY <1>1, <3>3, EndOfJob DEF DailySave, Job
      <3>4. CASE DailyFinish \/ DailyFails
        BY <1>1, <3>4, EndOfJob DEF DailyFinish, DailyFails
      <3> QED
        BY <1>4, <3>1, <3>2, <3>3, <3>4
    <2> QED
      BY <1>1, <2>1, <2>2 DEF WarnedInv, Reporting
  <1> QED
    BY <1>2, <1>3, <1>4 DEF DailySteps

LEMMA StepWarnsOnce == ASSUME Typed, WarnedInv, [Next]_vars PROVE WarnedInv'
  <1> USE DEF Typed
  <1>1. CASE NextDay \/ (\E h \in Handlers : Handle(h) \/ Crash(h)) \/ UNCHANGED vars
    <2>1. UNCHANGED <<warnings, clears, flags>> /\ daily'.step = daily.step
          /\ daily'.todo = daily.todo
      BY <1>1 DEF NextDay, Handle, Check, Decrement, Deliver, Increment, Decrease, Clamp, List, Find,
                  Save, Log, Crash, vars, jobs, redis, reports, TypeOK, Job
    <2> QED
      BY <2>1 DEF WarnedInv, Reporting
  <1>2. CASE MonthlyUnflag
    <2> DEFINE t == Smallest(monthly.todo)
    <2>1. monthly.todo \in SUBSET Thresholds /\ monthly.todo \in SUBSET Nat
      BY DataAssumption DEF TypeOK, Job
    <2>2. t \in Thresholds
      BY <1>2, <2>1, SmallestIn DEF MonthlyUnflag, JobsOK
    <2>3. /\ warnings' = warnings /\ daily' = daily /\ flags' = flags \ {t}
          /\ clears' = [clears EXCEPT ![t] = @ + 1]
      BY <1>2 DEF MonthlyUnflag
    <2>4. warnings \in [Thresholds -> Nat] /\ clears \in [Thresholds -> Nat]
      BY DEF TypeOK
    <2> QED
      BY <2>2, <2>3, <2>4 DEF WarnedInv, Reporting
  <1>3. CASE \/ MonthlyStart \/ MonthlyRead \/ MonthlySave \/ MonthlyClear \/ MonthlyFinish
             \/ MonthlyFails
    <2>1. UNCHANGED <<warnings, clears, flags, daily>>
      BY <1>3 DEF MonthlyStart, MonthlyRead, MonthlySave, MonthlyClear, MonthlyFinish, MonthlyFails,
                  redis, reports
    <2> QED
      BY <2>1 DEF WarnedInv, Reporting
  <1> QED
    BY <1>1, <1>2, <1>3, DailyWarnsOnce DEF Next, MonthlySteps

\* Between two resets a threshold is reported at most once, although the daily job may be
\* retried and may run while the reset clears the flags: for any thresholds and attempts.
THEOREM WarnsOnce == Spec => []WarnedOnce
  <1>1. Init => WarnedInv
    BY NoJobType DEF Init, WarnedInv, Reporting
  <1>2. Typed /\ WarnedInv /\ [Next]_vars => WarnedInv'
    BY StepWarnsOnce
  <1>3. Typed /\ WarnedInv => WarnedOnce
    BY DEF Typed, TypeOK, WarnedInv, WarnedOnce
  <1> QED
    BY <1>1, <1>2, <1>3, TypedHolds, PTL DEF Spec

-----------------------------------------------------------------------------
(* The overshoot.  Requests that were admitted and are not counted yet are *)
(* pending.  Each was admitted while the usage and its own amount were     *)
(* within the limit; the last one admitted bears witness for all of them:  *)
(* the others can only add what as many handlers can be admitted with.     *)
(* The second witness, for a counter of 0, serves when the month changes or*)
(* a counter is cleared or clamped under the pending requests.             *)

Pending == {h \in Handlers : pc[h] = "count" /\ task[h].kind = "limited"}
Amounts == [h \in Handlers |-> task[h].amount]

\* The most that n handlers can be admitted with.
Cap(n) == MaxAmount * n

Fits(P, f, used, bound) == \E h \in P : used + f[h] + Cap(Cardinality(P) - 1) <= bound

Ceiling == PlanLimit + Cap(Cardinality(Handlers) - 1)

OvershootInv ==
  /\ \A m \in Months : m > Now => counter[m] = 0
  /\ PlanLimit # Null /\ interrupted = {} =>
       /\ \A m \in Months : counter[m] <= Ceiling + unchecked[m]
       /\ Pending # {} => /\ Fits(Pending, Amounts, counter[Now], Ceiling + unchecked[Now])
                          /\ Fits(Pending, Amounts, 0, Ceiling)

LEMMA CapGrows ==
  ASSUME NEW m \in Int, NEW n \in Int
  PROVE  /\ Cap(m) \in Int
         /\ Cap(m + 1) = Cap(m) + MaxAmount
         /\ m >= 0 => Cap(m) >= 0
         /\ m <= n => Cap(m) <= Cap(n)
  <1>1. MaxAmount \in Nat
    BY BoundsAssumption
  <1>2. ASSUME m <= n PROVE Cap(m) <= Cap(n)
    <2>1. n - m \in Nat /\ MaxAmount * (n - m) >= 0
      BY <1>1, <1>2
    <2> QED
      BY <1>1, <2>1 DEF Cap
  <1>3. m >= 0 => Cap(m) >= 0
    BY <1>1 DEF Cap
  <1> QED
    BY <1>1, <1>2, <1>3 DEF Cap

LEMMA PendingFacts ==
  ASSUME Typed
  PROVE  /\ Pending \in SUBSET Handlers /\ IsFiniteSet(Pending)
         /\ Cardinality(Pending) \in Nat /\ Cardinality(Handlers) \in Nat \ {0}
         /\ Cardinality(Pending) <= Cardinality(Handlers)
         /\ \A h \in Pending : Amounts[h] \in 1 .. MaxAmount
         /\ PlanLimit # Null => PlanLimit \in Nat /\ Ceiling \in Int /\ Ceiling >= 0
         /\ Now \in Months /\ Now \in Int /\ counter[Now] \in Int /\ unchecked[Now] \in Nat
  <1> USE DEF Typed
  <1>1. IsFiniteSet(Handlers) /\ Handlers # {} /\ Pending \in SUBSET Handlers
    BY HandlersAssumption DEF Pending
  <1>2. /\ IsFiniteSet(Pending) /\ Cardinality(Pending) \in Nat
        /\ Cardinality(Handlers) \in Nat \ {0} /\ Cardinality(Pending) <= Cardinality(Handlers)
    BY <1>1, FS_Subset, FS_CardinalityType, FS_EmptySet
  <1>3. \A h \in Pending : Amounts[h] \in 1 .. MaxAmount
    BY DEF Pending, Amounts, KindsOK
  <1>4. PlanLimit \in Limit
    <2>1. account \in Account /\ Plans \in Catalogue
      BY DataAssumption DEF TypeOK
    <2> QED
      BY <2>1 DEF PlanLimit, LimitOf, Account, Catalogue, BillingPlan
  <1>5. PlanLimit # Null => PlanLimit \in Nat /\ Ceiling \in Int /\ Ceiling >= 0
    <2>1. Cardinality(Handlers) - 1 \in Int /\ Cardinality(Handlers) - 1 >= 0
      BY <1>2
    <2>2. Cap(Cardinality(Handlers) - 1) \in Int /\ Cap(Cardinality(Handlers) - 1) >= 0
      BY <2>1, CapGrows
    <2> QED
      BY <1>4, <2>2 DEF Limit, Ceiling
  <1>6. today \in Days /\ Days \subseteq Nat /\ Now \in Months
    BY NowIsMonth, BoundsAssumption DEF TypeOK, Now, Days
  <1>7. Now \in Int /\ counter[Now] \in Int /\ unchecked[Now] \in Nat
    BY <1>6, MonthBounds DEF TypeOK, Now
  <1> QED
    BY <1>1, <1>2, <1>3, <1>5, <1>6, <1>7

\* When one of the pending requests is counted, or given up, the others still fit.
LEMMA Released ==
  ASSUME NEW P \in SUBSET Handlers, IsFiniteSet(P), NEW f, \A g \in P : f[g] \in 1 .. MaxAmount,
         NEW h \in P, NEW used \in Int, NEW bound \in Int, Fits(P, f, used, bound)
  PROVE  /\ used + f[h] <= bound
         /\ P \ {h} # {} => /\ Fits(P \ {h}, f, used + f[h], bound)
                            /\ Fits(P \ {h}, f, used, bound)
  <1> DEFINE n == Cardinality(P)
  <1>1. PICK w \in P : used + f[w] + Cap(n - 1) <= bound
    BY DEF Fits
  <1>2. n \in Nat /\ IsFiniteSet(P \ {h}) /\ Cardinality(P \ {h}) = n - 1
    BY FS_CardinalityType, FS_RemoveElement
  <1>3. n - 1 \in Nat
    BY <1>2, FS_CardinalityType
  <1>4. f[w] \in 1 .. MaxAmount /\ f[h] \in 1 .. MaxAmount /\ MaxAmount \in Nat
    BY BoundsAssumption
  <1>5. Cap(n - 1) \in Int /\ Cap(n - 2) \in Int /\ Cap(n - 1) = Cap(n - 2) + MaxAmount
        /\ Cap(n - 1) >= 0 /\ (n >= 2 => Cap(n - 2) >= 0)
    <2>1. (n - 2) + 1 = n - 1 /\ n - 2 \in Int /\ n - 1 \in Int
      BY <1>2
    <2> QED
      BY <1>2, <1>3, <2>1, CapGrows
  <1>6. ASSUME P \ {h} # {}
        PROVE  n >= 2 /\ \E g \in P \ {h} : used + f[h] + f[g] + Cap(n - 2) <= bound
    <2>1. n >= 2
      BY <1>2, <1>3, <1>6, FS_EmptySet
    <2>2. CASE w = h
      <3>1. PICK g \in P \ {h} : TRUE
        BY <1>6
      <3>2. f[g] \in 1 .. MaxAmount
        OBVIOUS
      <3> QED
        BY <1>1, <1>4, <1>5, <2>1, <2>2, <3>1, <3>2
    <2>3. CASE w # h
      <3>1. used + f[h] + f[w] + Cap(n - 2) <= bound
        BY <1>1, <1>4, <1>5, <2>1
      <3> QED
        BY <2>1, <2>3, <3>1
    <2> QED
      BY <2>2, <2>3
  <1>7. used + f[h] <= bound
    <2>1. CASE w = h
      BY <1>1, <1>4, <1>5, <2>1
    <2>2. CASE w # h
      <3>1. P \ {h} # {}
        BY <2>2
      <3>2. n >= 2
        BY <1>6, <3>1
      <3> QED
        BY <1>1, <1>4, <1>5, <3>2
    <2> QED
      BY <2>1, <2>2
  <1>8. ASSUME P \ {h} # {}
        PROVE  Fits(P \ {h}, f, used + f[h], bound) /\ Fits(P \ {h}, f, used, bound)
    <2>1. PICK g \in P \ {h} : used + f[h] + f[g] + Cap(n - 2) <= bound
      BY <1>6, <1>8
    <2>2. (n - 1) - 1 = n - 2 /\ f[g] \in 1 .. MaxAmount
      BY <1>2
    <2>3. used + f[g] + Cap(n - 2) <= bound
      BY <1>4, <1>5, <2>1, <2>2
    <2> QED
      BY <1>2, <2>1, <2>2, <2>3 DEF Fits
  <1> QED
    BY <1>7, <1>8

\* A step that lets the requests pending as they are, and the usage no closer to what it
\* may be.
LEMMA StillFits ==
  ASSUME Typed, Typed', OvershootInv, today' = today, account' = account,
         interrupted \subseteq interrupted', Pending' = Pending,
         \A h \in Pending : Amounts'[h] = Amounts[h],
         \A m \in Months : m > Now => counter'[m] = 0,
         \A m \in Months : \/ counter'[m] = 0
                           \/ counter'[m] - unchecked'[m] <= counter[m] - unchecked[m]
  PROVE  OvershootInv'
  <1>1. Now' = Now /\ PlanLimit' = PlanLimit /\ Ceiling' = Ceiling
    BY DEF Now, PlanLimit, Ceiling
  <1> SUFFICES ASSUME PlanLimit # Null, interrupted' = {}
               PROVE  /\ \A m \in Months : counter'[m] <= Ceiling + unchecked'[m]
                      /\ Pending # {} =>
                           /\ Fits(Pending, Amounts', counter'[Now], Ceiling + unchecked'[Now])
                           /\ Fits(Pending, Amounts', 0, Ceiling)
    BY <1>1 DEF OvershootInv
  <1>2. interrupted = {}
    OBVIOUS
  <1>3. Ceiling \in Int /\ Ceiling >= 0 /\ Now \in Months
    BY PendingFacts
  <1>4. \A m \in Months : counter[m] \in Int /\ counter'[m] \in Int /\ unchecked[m] \in Nat
                          /\ unchecked'[m] \in Nat
    BY DEF Typed, TypeOK
  <1>5. \A m \in Months : counter[m] <= Ceiling + unchecked[m]
    BY <1>2 DEF OvershootInv
  <1>6. \A m \in Months : counter'[m] <= Ceiling + unchecked'[m]
    BY <1>3, <1>4, <1>5
  <1>7. ASSUME Pending # {}
        PROVE  /\ Fits(Pending, Amounts', counter'[Now], Ceiling + unchecked'[Now])
               /\ Fits(Pending, Amounts', 0, Ceiling)
    <2> DEFINE rest == Cap(Cardinality(Pending) - 1)
    <2>1. rest \in Int /\ \A h \in Pending : Amounts[h] \in Int
      <3>1. Cardinality(Pending) - 1 \in Int /\ \A h \in Pending : Amounts[h] \in 1 .. MaxAmount
        BY PendingFacts
      <3>2. rest \in Int
        BY <3>1, CapGrows
      <3> HIDE DEF rest
      <3> QED
        BY <3>1, <3>2
    <2>2. PICK w \in Pending : counter[Now] + Amounts[w] + rest <= Ceiling + unchecked[Now]
      BY <1>2, <1>7 DEF OvershootInv, Fits
    <2>3. PICK v \in Pending : 0 + Amounts[v] + rest <= Ceiling
      BY <1>2, <1>7 DEF OvershootInv, Fits
    <2>4. Fits(Pending, Amounts', 0, Ceiling)
      BY <2>3 DEF Fits
    <2> HIDE DEF rest
    <2>5. CASE counter'[Now] = 0
      <3>1. counter'[Now] + Amounts'[v] + rest <= Ceiling + unchecked'[Now]
        BY <1>3, <1>4, <2>1, <2>3, <2>5
      <3> QED
        BY <2>4, <3>1 DEF Fits, rest
    <2>6. CASE counter'[Now] - unchecked'[Now] <= counter[Now] - unchecked[Now]
      <3>1. counter'[Now] + Amounts'[w] + rest <= Ceiling + unchecked'[Now]
        BY <1>3, <1>4, <2>1, <2>2, <2>6
      <3> QED
        BY <2>4, <3>1 DEF Fits, rest
    <2> QED
      BY <1>3, <2>5, <2>6
  <1> QED
    BY <1>6, <1>7

\* A request is admitted: it bears witness from now on.
LEMMA CheckFits ==
  ASSUME Typed, Typed', NegativeIsClamped, OvershootInv, NEW h \in Handlers, Check(h)
  PROVE  OvershootInv'
  <1>1. PICK amount \in 1 .. MaxAmount : Admits(amount) /\ Begin(h, "limited", amount, Null)
    BY DEF Check
  <1>2. /\ Now' = Now /\ PlanLimit' = PlanLimit /\ Ceiling' = Ceiling
        /\ counter' = counter /\ unchecked' = unchecked /\ interrupted' = interrupted
    BY DEF Check, Now, PlanLimit, Ceiling, given, redis
  <1>3. /\ pc'[h] = "count" /\ task'[h].kind = "limited" /\ task'[h].amount = amount
        /\ \A g \in Handlers \ {h} : pc'[g] = pc[g] /\ task'[g] = task[g]
    BY <1>1 DEF Begin, Typed, TypeOK, NoTask
  <1>4. Pending' = Pending \cup {h} /\ h \notin Pending /\ Amounts'[h] = amount
    BY <1>3 DEF Pending, Amounts, Check
  <1> SUFFICES ASSUME PlanLimit # Null, interrupted = {}
               PROVE  /\ Fits(Pending', Amounts', counter[Now], Ceiling + unchecked[Now])
                      /\ Fits(Pending', Amounts', 0, Ceiling)
    BY <1>2 DEF OvershootInv
  <1> DEFINE n == Cardinality(Pending')
             all == Cardinality(Handlers)
  <1>5. /\ Pending' \in SUBSET Handlers /\ IsFiniteSet(Pending') /\ n \in Nat /\ all \in Nat \ {0}
        /\ n <= all /\ PlanLimit \in Nat /\ counter[Now] \in Int /\ unchecked[Now] \in Nat
        /\ Now \in Months /\ MaxAmount \in Nat
    <2>1. n <= all
      BY <1>4, PendingFacts, FS_Subset, HandlersAssumption
    <2>2. IsFiniteSet(Pending') /\ n \in Nat
      BY <1>4, PendingFacts, FS_AddElement, FS_CardinalityType
    <2> QED
      BY <1>4, <2>1, <2>2, PendingFacts, BoundsAssumption
  <1>6. /\ Cap(n - 1) \in Int /\ Cap(all - 1) \in Int /\ Cap(n - 1) <= Cap(all - 1)
        /\ Cap(all - 1) = Cap(all - 2) + MaxAmount /\ Cap(all - 2) \in Int
        /\ n <= all - 1 => Cap(n - 1) <= Cap(all - 2)
    <2>1. /\ n - 1 \in Int /\ all - 1 \in Int /\ all - 2 \in Int /\ (all - 2) + 1 = all - 1
          /\ n - 1 <= all - 1 /\ (n <= all - 1 => n - 1 <= all - 2)
      BY <1>5
    <2> HIDE DEF n, all
    <2> QED
      BY <2>1, CapGrows
  <1>7. counter[Now] + amount <= PlanLimit
    <2>1. ~Exceeds(PlanLimit, counter[Now], amount, 0)
      BY <1>1, <1>5 DEF Admits, BillingAllows, Enforced, PlanLimit
    <2> QED
      BY <1>5, <2>1 DEF Exceeds, Effective
  <1>8. counter[Now] + amount + Cap(n - 1) <= Ceiling + unchecked[Now]
    BY <1>5, <1>6, <1>7 DEF Ceiling
  <1>9. amount + Cap(n - 1) <= Ceiling
    <2>1. CASE counter[Now] >= 0
      BY <1>5, <1>6, <1>7, <2>1 DEF Ceiling
    <2>2. CASE counter[Now] < 0
      <3>1. PICK g \in Handlers : pc[g] = "clamp"
        BY <1>5, <2>2 DEF NegativeIsClamped
      <3>2. g \notin Pending'
        BY <1>4, <3>1 DEF Pending, Check
      <3>3. Pending' \in SUBSET (Handlers \ {g})
        BY <1>5, <3>2
      <3>4. IsFiniteSet(Handlers \ {g}) /\ Cardinality(Handlers \ {g}) = all - 1
        BY <3>1, FS_RemoveElement, HandlersAssumption
      <3>5. n <= all - 1
        BY <3>3, <3>4, FS_Subset
      <3> QED
        BY <1>5, <1>6, <3>5 DEF Ceiling
    <2> QED
      BY <1>5, <2>1, <2>2
  <1>10. /\ h \in Pending' /\ Amounts'[h] = amount
         /\ 0 + amount + Cap(n - 1) <= Ceiling
    BY <1>4, <1>5, <1>6, <1>9
  <1> HIDE DEF n, all
  <1>11. /\ \E g \in Pending' : counter[Now] + Amounts'[g] + Cap(n - 1) <= Ceiling + unchecked[Now]
         /\ \E g \in Pending' : 0 + Amounts'[g] + Cap(n - 1) <= Ceiling
    BY <1>8, <1>10, Zenon
  <1> QED
    BY <1>11 DEF Fits, n

\* A pending request is counted, or given up in a crash.
LEMMA LeaveFits ==
  ASSUME Typed, OvershootInv, NEW h \in Pending,
         Increment(h) \/ Crash(h)
  PROVE  OvershootInv'
  <1> USE DEF Typed
  <1>1. /\ Now' = Now /\ PlanLimit' = PlanLimit /\ Ceiling' = Ceiling
        /\ unchecked' = unchecked /\ interrupted' = interrupted
    BY DEF Increment, Crash, Now, PlanLimit, Ceiling, given, Pending
  <1>2. h \in Handlers /\ pc[h] = "count" /\ task[h].kind = "limited" /\ task[h] \in Task
        /\ Amounts[h] = task[h].amount
    BY DEF Pending, Amounts, TypeOK
  <1>3. pc'[h] \in {"list", "idle"} /\ \A g \in Handlers \ {h} : pc'[g] = pc[g] /\ task'[g] = task[g]
    BY <1>2 DEF Increment, Crash, Return, TypeOK
  <1>4. Pending' = Pending \ {h} /\ \A g \in Pending \ {h} : Amounts'[g] = Amounts[g]
    BY <1>2, <1>3 DEF Pending, Amounts
  <1>5. counter \in [Months -> Int] /\ Now \in Months /\ Now \in Int
    BY PendingFacts DEF TypeOK
  <1>6. \A m \in Months \ {Now} : counter'[m] = counter[m]
    BY <1>5 DEF Increment, Crash, redis
  <1>7. counter'[Now] \in {counter[Now], counter[Now] + Amounts[h]}
    BY <1>2, <1>5 DEF Increment, Crash, redis
  <1> SUFFICES ASSUME PlanLimit # Null, interrupted = {}
               PROVE  /\ counter'[Now] <= Ceiling + unchecked[Now]
                      /\ Pending \ {h} # {} =>
                           /\ Fits(Pending \ {h}, Amounts', counter'[Now], Ceiling + unchecked[Now])
                           /\ Fits(Pending \ {h}, Amounts', 0, Ceiling)
    BY <1>1, <1>4, <1>5, <1>6 DEF OvershootInv
  <1> DEFINE bound == Ceiling + unchecked[Now]
             used == counter[Now]
  <1>8. used \in Int /\ bound \in Int /\ used <= bound /\ Ceiling \in Int
    BY PendingFacts DEF OvershootInv
  <1>9. Fits(Pending, Amounts, used, bound) /\ Fits(Pending, Amounts, 0, Ceiling)
    BY DEF OvershootInv
  <1> HIDE DEF bound, used
  <1>10. /\ used + Amounts[h] <= bound
         /\ Pending \ {h} # {} => /\ Fits(Pending \ {h}, Amounts, used + Amounts[h], bound)
                                  /\ Fits(Pending \ {h}, Amounts, used, bound)
                                  /\ Fits(Pending \ {h}, Amounts, 0, Ceiling)
    <2>1. /\ Pending \in SUBSET Handlers /\ IsFiniteSet(Pending)
          /\ \A g \in Pending : Amounts[g] \in 1 .. MaxAmount
      BY PendingFacts
    <2>2. /\ used + Amounts[h] <= bound
          /\ Pending \ {h} # {} => /\ Fits(Pending \ {h}, Amounts, used + Amounts[h], bound)
                                   /\ Fits(Pending \ {h}, Amounts, used, bound)
      BY <1>8, <1>9, <2>1, Released
    <2>3. Pending \ {h} # {} => Fits(Pending \ {h}, Amounts, 0, Ceiling)
      <3>1. 0 \in Int
        OBVIOUS
      <3> QED
        BY <1>8, <1>9, <2>1, <3>1, Released
    <2> QED
      BY <2>2, <2>3
  <1>11. \A value, limit :
           Fits(Pending \ {h}, Amounts, value, limit) => Fits(Pending \ {h}, Amounts', value, limit)
    BY <1>4 DEF Fits
  <1>12. counter'[Now] \in {used, used + Amounts[h]}
    BY <1>7 DEF used
  <1>13. counter'[Now] <= bound
    BY <1>8, <1>10, <1>12
  <1> QED
    BY <1>10, <1>11, <1>12, <1>13 DEF bound

LEMMA HandlerFits ==
  ASSUME Typed, Typed', NegativeIsClamped, OvershootInv, NEW h \in Handlers, Handle(h) \/ Crash(h)
  PROVE  OvershootInv'
  <1>1. CASE Check(h)
    BY <1>1, CheckFits
  <1>2. CASE h \in Pending /\ (Increment(h) \/ Crash(h))
    BY <1>2, LeaveFits
  <1>3. CASE ~Check(h) /\ ~(h \in Pending /\ (Increment(h) \/ Crash(h)))
    <2> USE DEF Typed
    <2>1. /\ counter \in [Months -> Int] /\ unchecked \in [Months -> Nat] /\ task[h] \in Task
          /\ Now \in Months /\ Now \in Int
      BY PendingFacts DEF TypeOK
    <2>2. today' = today /\ account' = account /\ interrupted \subseteq interrupted'
      BY <1>3 DEF Handle, Decrement, Deliver, Increment, Decrease, Clamp, List, Find, Save, Log,
                  Crash, given
    <2>3. \A g \in Handlers \ {h} : pc'[g] = pc[g] /\ task'[g] = task[g]
      BY DEF Handle, Check, Decrement, Deliver, Begin, Return, Increment, Decrease, Clamp, List,
             Find, Save, Log, Crash, TypeOK
    <2>4. h \notin Pending
      BY <1>3 DEF Handle, Decrement, Deliver, Decrease, Clamp, List, Find, Save, Log, Pending, KindsOK,
                  Check
    <2>5. ~(pc'[h] = "count" /\ task'[h].kind = "limited")
      <3>1. CASE Decrement(h) \/ \E e \in Events : Deliver(h, e)
        <4>1. \A kind, amount, e : Begin(h, kind, amount, e) => task'[h].kind = kind
          BY DEF Begin, TypeOK, NoTask
        <4> QED
          BY <3>1, <4>1 DEF Decrement, Deliver
      <3>2. CASE Save(h) \/ Log(h) \/ Crash(h)
        BY <3>2 DEF Save, Log, Crash, Return, TypeOK
      <3>3. CASE Increment(h) \/ Decrease(h) \/ Clamp(h) \/ List(h) \/ Find(h)
        BY <3>3 DEF Increment, Decrease, AfterDecrease, Clamp, List, AfterRedis, Find, TypeOK
      <3> QED
        BY <1>3, <3>1, <3>2, <3>3 DEF Handle
    <2>6. Pending' = Pending /\ \A g \in Pending : Amounts'[g] = Amounts[g]
      BY <2>3, <2>4, <2>5 DEF Pending, Amounts
    <2>7. ASSUME NEW m \in Months
          PROVE  /\ m > Now => counter'[m] = 0
                 /\ counter'[m] = 0 \/ counter'[m] - unchecked'[m] <= counter[m] - unchecked[m]
      <3>0. counter[m] \in Int /\ unchecked[m] \in Nat /\ m \in Int
            /\ (m > Now => counter[m] = 0 /\ m # Now)
        <4>1. m \in Int
          BY DEF Months
        <4>2. m > Now => counter[m] = 0 /\ m # Now
          BY <2>1, <4>1 DEF OvershootInv
        <4> QED
          BY <2>1, <4>1, <4>2
      <3>1. CASE Decrement(h) \/ (\E e \in Events : Deliver(h, e)) \/ List(h) \/ Find(h) \/ Save(h)
                 \/ Log(h) \/ Crash(h)
        <4>1. counter' = counter /\ unchecked' = unchecked
          BY <3>1 DEF Decrement, Deliver, List, Find, Save, Log, Crash, redis
        <4> QED
          BY <3>0, <4>1
      <3>2. CASE Increment(h)
        <4>1. task[h].kind = "event" /\ task[h].amount \in Int
          BY <1>3, <2>1, <2>4, <3>2 DEF Increment, KindsOK, Pending, Task
        <4>2. /\ counter' = [counter EXCEPT ![Now] = @ + task[h].amount]
              /\ unchecked' = [unchecked EXCEPT ![Now] = @ + task[h].amount]
          BY <3>2, <4>1 DEF Increment
        <4> QED
          BY <2>1, <3>0, <4>1, <4>2
      <3>3. CASE Decrease(h)
        <4>1. task[h].amount \in Int /\ task[h].amount < 0
          BY <2>1, <3>3 DEF Decrease, Task
        <4>2. /\ counter' = [counter EXCEPT ![Now] = @ + task[h].amount] /\ unchecked' = unchecked
          BY <3>3 DEF Decrease
        <4> QED
          BY <2>1, <3>0, <4>1, <4>2
      <3>4. CASE Clamp(h)
        <4>1. counter' = [counter EXCEPT ![task[h].month] = 0] /\ unchecked' = unchecked
          BY <3>4 DEF Clamp
        <4> QED
          BY <2>1, <3>0, <4>1
      <3> QED
        BY <1>3, <3>1, <3>2, <3>3, <3>4 DEF Handle
    <2> QED
      BY <2>2, <2>6, <2>7, StillFits
  <1> QED
    BY <1>1, <1>2, <1>3

\* The days: when a month begins, its counter is 0.
LEMMA NextDayFits == ASSUME Typed, Typed', OvershootInv, NextDay PROVE OvershootInv'
  <1>1. /\ account' = account /\ counter' = counter /\ unchecked' = unchecked
        /\ interrupted' = interrupted /\ today' = today + 1 /\ Pending' = Pending /\ Amounts' = Amounts
        /\ PlanLimit' = PlanLimit /\ Ceiling' = Ceiling
    BY DEF NextDay, given, redis, Pending, Amounts, PlanLimit, Ceiling
  <1>2. today \in Nat /\ today + 1 \in Nat /\ Now \in Int /\ Now' \in Int /\ Now <= Now'
    <2>1. today \in Nat
      BY BoundsAssumption DEF Typed, TypeOK, Days
    <2> QED
      BY <1>1, <2>1, MonthBounds, MonthGrows DEF Now
  <1>3. Now' \in Months /\ Months \subseteq Int
    BY PendingFacts, NowIsMonth DEF Typed, TypeOK, Months, Now
  <1>4. \A m \in Months : m > Now' => counter[m] = 0
    BY <1>2, <1>3 DEF OvershootInv
  <1> SUFFICES ASSUME PlanLimit # Null, interrupted = {}, Pending # {}, Now' # Now
               PROVE  Fits(Pending, Amounts, counter[Now'], Ceiling + unchecked[Now'])
    BY <1>1, <1>4 DEF OvershootInv
  <1>5. counter[Now'] = 0 /\ unchecked[Now'] \in Nat
    BY <1>2, <1>3 DEF OvershootInv, Typed, TypeOK
  <1> DEFINE rest == Cap(Cardinality(Pending) - 1)
  <1>6. PICK v \in Pending : 0 + Amounts[v] + rest <= Ceiling
    BY DEF OvershootInv, Fits
  <1>7. /\ rest \in Int /\ Amounts[v] \in 1 .. MaxAmount /\ Ceiling \in Int
    <2>1. Cardinality(Pending) - 1 \in Int
      BY PendingFacts
    <2> QED
      BY <2>1, PendingFacts, CapGrows
  <1> HIDE DEF rest
  <1>8. counter[Now'] + Amounts[v] + rest <= Ceiling + unchecked[Now']
    BY <1>5, <1>6, <1>7
  <1> QED
    BY <1>8 DEF Fits, rest

LEMMA StepFits ==
  ASSUME Typed, Typed', NegativeIsClamped, OvershootInv, [Next]_vars
  PROVE  OvershootInv'
  <1>1. CASE DailySteps \/ DailyFails \/ MonthlySteps \/ MonthlyFails \/ UNCHANGED vars
    <2>1. UNCHANGED <<today, account, interrupted, unchecked, pc, task>>
      BY <1>1 DEF DailySteps, DailyStart, DailyFind, DailySave, DailyWarn, DailyReport, DailyFinish,
                  DailyFails, MonthlySteps, MonthlyStart, MonthlyRead, MonthlySave, MonthlyClear,
                  MonthlyUnflag, MonthlyFinish, MonthlyFails, vars, given
    <2>2. \A m \in Months : counter'[m] = counter[m] \/ counter'[m] = 0
      BY <1>1 DEF DailySteps, DailyStart, DailyFind, DailySave, DailyWarn, DailyReport, DailyFinish,
                  DailyFails, MonthlySteps, MonthlyStart, MonthlyRead, MonthlySave, MonthlyClear,
                  MonthlyUnflag, MonthlyFinish, MonthlyFails, vars, redis, Typed, TypeOK
    <2>3. Pending' = Pending /\ Amounts' = Amounts
      BY <2>1 DEF Pending, Amounts
    <2>4. \A m \in Months : m > Now => counter'[m] = 0
      BY <2>2 DEF OvershootInv
    <2>5. \A m \in Months : \/ counter'[m] = 0
                            \/ counter'[m] - unchecked'[m] <= counter[m] - unchecked[m]
      BY <2>1, <2>2 DEF Typed, TypeOK
    <2> QED
      BY <2>1, <2>3, <2>4, <2>5, StillFits
  <1> QED
    BY <1>1, NextDayFits, HandlerFits DEF Next

LEMMA InitFits == ASSUME Init PROVE OvershootInv
  <1>1. Typed
    BY InitTyped
  <1>2. Pending = {} /\ \A m \in Months : counter[m] = 0 /\ unchecked[m] = 0
    BY DEF Init, Pending
  <1>3. PlanLimit # Null => Ceiling \in Int /\ Ceiling >= 0
    BY <1>1, PendingFacts
  <1> QED
    BY <1>2, <1>3 DEF OvershootInv

\* Requests are checked first and counted later, so a limit can be overrun, but only by
\* what the other handlers may have been admitted with, events apart: for any number of
\* handlers, any limit, any amounts, and whatever the jobs and the calendar do meanwhile.
THEOREM OvershootIsBounded == Spec => []OvershootBounded
  <1>1. Init => OvershootInv
    BY InitFits
  <1>2. Typed /\ Typed' /\ NegativeIsClamped /\ OvershootInv /\ [Next]_vars => OvershootInv'
    BY StepFits
  <1>3. OvershootInv => OvershootBounded
    BY DEF OvershootInv, OvershootBounded, Ceiling, Cap
  <1> QED
    BY <1>1, <1>2, <1>3, ClampingHolds, PTL DEF Spec

-----------------------------------------------------------------------------
(* Plans.  A reader that was not overtaken holds the list of the database. *)
(* While nothing interferes with a sync, the prices it has listed are sold;*)
(* those that are not done yet, with those it has seen, are all that are   *)
(* sold; and then the plans of other prices are inactive or still on its   *)
(* list.                                                                   *)

Editing == [step : {"idle", "save", "invalidate"}, id : Catalog \cup {Null},
            row : PlanRow \cup {Null}]

Entry == [id : Priced, row : PlanRow]

Syncing == [step : {"idle", "list", "prices", "plans"}, listed : SUBSET Priced, prices : SUBSET Priced,
            plans : SUBSET Entry, seen : SUBSET Priced, at : Priced \cup {Null},
            row : PlanRow \cup {Null}]

CatalogTyped ==
  /\ PTypeOK
  /\ admin \in [Admins -> Editing]
  /\ \A a \in Admins : admin[a].step = "save" => admin[a].id \in Catalog /\ admin[a].row \in PlanRow
  /\ sync \in Syncing
  /\ sync.step = "idle" => sync = NoSync
  /\ sync.at # Null => sync.step = "prices"

ReaderAgrees ==
  IF reader.step = "fill" THEN ~overtaken => reader.list = Public(plan) ELSE ~overtaken

Active(p) == plan[p] # Null /\ plan[p].active

SyncAgrees ==
  ~interfered =>
    /\ sync.step = "list" =>
         /\ sync.listed \subseteq sold
         /\ sync.prices = {} /\ sync.seen = {} /\ sync.at = Null
    /\ sync.step = "prices" => sync.prices \cup sync.seen \cup ({sync.at} \ {Null}) = sold
    /\ sync.step = "plans" =>
         /\ sync.seen = sold
         /\ \A entry \in sync.plans : entry.id \notin sold
         /\ sync.seen # {} =>
              \A p \in Priced \ sold : Active(p) => \E entry \in sync.plans : entry.id = p
    /\ \A p \in sync.seen : Active(p)

CatalogInv == CatalogTyped /\ ReaderAgrees /\ CacheAgrees /\ SyncAgrees /\ SyncedAgrees

LEMMA NoAdminType == NoAdmin \in Editing /\ NoAdmin.step = "idle"
  BY DEF NoAdmin, Editing

LEMMA NoSyncType == NoSync \in Syncing /\ NoSync.step = "idle" /\ NoSync.at = Null /\ NoSync.seen = {}
  BY DEF NoSync, Syncing

LEMMA CatalogInit == ASSUME PInit PROVE CatalogInv
  <1>1. PTypeOK
    <2>1. plan \in [Catalog -> PlanRow \cup {Null}] /\ sold \subseteq Priced /\ cache = Null
      BY DEF PInit
    <2>2. reader.step \in {"idle", "fill"} /\ reader.list \subseteq Catalog
      BY DEF PInit, Nothing
    <2>3. \A a \in Admins : admin[a].step \in {"idle", "save", "invalidate"}
      BY DEF PInit, NoAdmin
    <2>4. sync.step \in {"idle", "list", "prices", "plans"}
          /\ sync.listed \cup sync.prices \cup sync.seen \subseteq Priced
      BY DEF PInit, NoSync
    <2>5. edits \in 0..MaxEdits /\ pfaults \in 0..MaxPFaults
      BY CatalogAssumption DEF PInit
    <2> QED
      BY <2>1, <2>2, <2>3, <2>4, <2>5 DEF PTypeOK
  <1>2. CatalogTyped
    <2>1. admin \in [Admins -> Editing] /\ \A a \in Admins : admin[a].step = "idle"
      BY NoAdminType DEF PInit
    <2>2. sync = NoSync /\ sync \in Syncing /\ sync.at = Null
      BY NoSyncType DEF PInit
    <2> QED
      BY <1>1, <2>1, <2>2 DEF CatalogTyped
  <1>3. ReaderAgrees /\ CacheAgrees /\ SyncedAgrees
    BY DEF PInit, ReaderAgrees, CacheAgrees, SyncedAgrees, Nothing
  <1>4. SyncAgrees
    BY NoSyncType DEF PInit, SyncAgrees
  <1> QED
    BY <1>2, <1>3, <1>4 DEF CatalogInv

-----------------------------------------------------------------------------
\* What a row that is saved does to the reader, and what it does not do to a sync.
LEMMA SavedRow ==
  ASSUME CatalogInv, NEW p \in Catalog, NEW row \in PlanRow, SavePlan(p, row), reader' = reader
  PROVE  /\ plan' \in [Catalog -> PlanRow \cup {Null}]
         /\ ReaderAgrees'
         /\ plan'[p] = row /\ \A q \in Catalog \ {p} : plan'[q] = plan[q]
  <1>1. plan' = [plan EXCEPT ![p] = row] /\ plan \in [Catalog -> PlanRow \cup {Null}]
    BY DEF SavePlan, CatalogInv, CatalogTyped, PTypeOK
  <1>2. ReaderAgrees'
    <2>1. overtaken' = (overtaken \/ (reader.step = "fill" /\ Public(plan') # Public(plan)))
      BY DEF SavePlan
    <2> HIDE DEF Public
    <2> QED
      BY <2>1 DEF CatalogInv, ReaderAgrees
  <1> QED
    BY <1>1, <1>2

LEMMA AdminSteps ==
  ASSUME CatalogInv, NEW a \in Admins, LoadPlan(a) \/ SaveAdmin(a) \/ InvalidateAdmin(a)
  PROVE  CatalogInv'
  <1> USE DEF CatalogInv
  <1>1. /\ admin \in [Admins -> Editing] /\ admin[a] \in Editing
        /\ plan \in [Catalog -> PlanRow \cup {Null}] /\ edits \in 0..MaxEdits /\ pfaults \in 0..MaxPFaults
    BY DEF CatalogTyped, PTypeOK
  <1>2. CASE LoadPlan(a)
    <2>1. PICK p \in Catalog, row \in PlanRow :
            admin' = [admin EXCEPT ![a] = [step |-> "save", id |-> p, row |-> row]]
      BY <1>2 DEF LoadPlan
    <2>3. admin' \in [Admins -> Editing] /\ admin'[a] = [step |-> "save", id |-> p, row |-> row]
          /\ \A b \in Admins \ {a} : admin'[b] = admin[b]
      BY <1>1, <2>1 DEF Editing
    <2>4. edits' \in 0..MaxEdits
      BY <1>1, <1>2, CatalogAssumption DEF LoadPlan
    <2>5. CatalogTyped'
      BY <1>2, <2>3, <2>4 DEF LoadPlan, CatalogTyped, PTypeOK, Editing
    <2>6. Invalidating' = Invalidating
      BY <1>1, <1>2, <2>3, NoAdminType DEF LoadPlan, Invalidating
    <2> QED
      BY <1>2, <2>5, <2>6 DEF LoadPlan, ReaderAgrees, CacheAgrees, SyncAgrees, SyncedAgrees, Active, Public
  <1>3. CASE SaveAdmin(a)
    <2> DEFINE p == admin[a].id
               row == admin[a].row
    <2>1. p \in Catalog /\ row \in PlanRow
      BY <1>3 DEF SaveAdmin, CatalogTyped
    <2>2. /\ SavePlan(p, row) /\ admin' = [admin EXCEPT ![a] = [@ EXCEPT !.step = "invalidate"]]
          /\ interfered' = (sync # NoSync)
          /\ UNCHANGED <<sold, cache, reader, sync, stale, mismatch, edits, pfaults>>
      BY <1>3 DEF SaveAdmin, AfterSave
    <2>3. /\ plan' \in [Catalog -> PlanRow \cup {Null}] /\ ReaderAgrees'
      BY <2>1, <2>2, SavedRow
    <2>4. admin' \in [Admins -> Editing] /\ admin'[a].step = "invalidate"
          /\ \A b \in Admins \ {a} : admin'[b] = admin[b]
      BY <1>1, <2>2 DEF Editing
    <2>5. CatalogTyped'
      BY <2>2, <2>3, <2>4 DEF CatalogTyped, PTypeOK, Editing
    <2>6. CacheAgrees'
      BY <2>4 DEF CacheAgrees, Invalidating
    <2>7. SyncAgrees' /\ SyncedAgrees'
      BY <2>2, NoSyncType DEF SyncAgrees, SyncedAgrees
    <2> QED
      BY <2>3, <2>5, <2>6, <2>7
  <1>4. CASE InvalidateAdmin(a)
    <2>1. /\ admin' = [admin EXCEPT ![a] = NoAdmin]
          /\ UNCHANGED <<plan, sold, reader, sync, overtaken, interfered, mismatch, edits>>
      BY <1>4 DEF InvalidateAdmin
    <2>2. admin' \in [Admins -> Editing] /\ admin'[a] = NoAdmin
          /\ \A b \in Admins \ {a} : admin'[b] = admin[b]
      BY <1>1, <2>1, NoAdminType
    <2>3. pfaults' \in 0..MaxPFaults /\ (cache' = Null \/ cache' = cache) /\ (cache' # Null => stale')
      <3>1. Invalidate
        BY <1>4 DEF InvalidateAdmin
      <3>2. pfaults' = pfaults \/ PFault
        BY <3>1 DEF Invalidate
      <3>3. pfaults' \in 0..MaxPFaults
        BY <1>1, <3>2, CatalogAssumption DEF PFault
      <3>4. (cache' = Null \/ cache' = cache) /\ (cache' # Null => stale')
        BY <3>1 DEF Invalidate
      <3> QED
        BY <3>3, <3>4
    <2>4. CatalogTyped'
      BY <2>1, <2>2, <2>3, NoAdminType DEF CatalogTyped, PTypeOK, Editing
    <2> QED
      BY <2>1, <2>3, <2>4 DEF ReaderAgrees, CacheAgrees, SyncAgrees, SyncedAgrees, Active, Public
  <1> QED
    BY <1>2, <1>3, <1>4

LEMMA ReaderSteps ==
  ASSUME CatalogInv, FindPublic \/ FillCache \/ CacheExpires
  PROVE  CatalogInv'
  <1> USE DEF CatalogInv
  <1>1. /\ Public(plan) \subseteq Catalog /\ reader.list \subseteq Catalog
        /\ cache = Null \/ cache.list \subseteq Catalog
    BY DEF CatalogTyped, PTypeOK, Public
  <1> USE DEF SyncAgrees, SyncedAgrees, Active
  <1> HIDE DEF Public
  <1>2. CASE FindPublic
    <2>1. /\ reader' = [step |-> "fill", list |-> Public(plan)] /\ cache = Null
          /\ UNCHANGED <<plan, sold, cache, admin, sync, overtaken, stale, interfered, mismatch, edits,
                         pfaults>>
      BY <1>2 DEF FindPublic
    <2>2. Public(plan)' = Public(plan)
      BY <2>1 DEF Public
    <2> QED
      BY <1>1, <2>1, <2>2 DEF CatalogTyped, PTypeOK, ReaderAgrees, CacheAgrees
  <1>3. CASE FillCache
    <2>1. /\ reader.step = "fill" /\ cache'.list = reader.list /\ stale' = overtaken /\ ~overtaken'
          /\ reader'.step = "idle" /\ reader'.list = {}
          /\ UNCHANGED <<plan, sold, admin, sync, interfered, mismatch, edits, pfaults>>
      BY <1>3 DEF FillCache, Nothing
    <2>2. Public(plan)' = Public(plan)
      BY <2>1 DEF Public
    <2> QED
      BY <1>1, <2>1, <2>2 DEF CatalogTyped, PTypeOK, ReaderAgrees, CacheAgrees
  <1>4. CASE CacheExpires
    <2>1. Public(plan)' = Public(plan)
      BY <1>4 DEF CacheExpires, Public
    <2> QED
      BY <1>4, <2>1 DEF CacheExpires, CatalogTyped, PTypeOK, ReaderAgrees, CacheAgrees
  <1> QED
    BY <1>2, <1>3, <1>4

\* Steps of the sync that touch no plan and no list.
LEMMA SyncMoves ==
  ASSUME CatalogInv, sync' \in Syncing, sync'.step # "idle",
         sync'.at # Null => sync'.step = "prices", pfaults' \in 0..MaxPFaults, SyncAgrees',
         UNCHANGED <<plan, sold, cache, reader, admin, overtaken, stale, mismatch, edits>>
  PROVE  CatalogInv'
  <1> USE DEF CatalogInv
  <1>1. CatalogTyped'
    BY DEF CatalogTyped, PTypeOK, Syncing
  <1>2. Invalidating'
    BY NoSyncType DEF Invalidating
  <1> QED
    BY <1>1, <1>2 DEF ReaderAgrees, CacheAgrees, SyncedAgrees, Public

\* Steps of the sync that save a row: the price's own, or one that is not sold any more.
LEMMA SyncSaves ==
  ASSUME CatalogInv, NEW p \in Priced, NEW row \in PlanRow, SavePlan(p, row),
         sync' \in Syncing, sync'.step # "idle", sync'.at # Null => sync'.step = "prices", SyncAgrees',
         UNCHANGED <<sold, cache, reader, admin, stale, mismatch, edits, pfaults>>
  PROVE  CatalogInv'
  <1> USE DEF CatalogInv
  <1>1. plan' \in [Catalog -> PlanRow \cup {Null}] /\ ReaderAgrees'
    BY CatalogAssumption, SavedRow
  <1>2. CatalogTyped'
    BY <1>1 DEF CatalogTyped, PTypeOK, Syncing
  <1>3. Invalidating'
    BY NoSyncType DEF Invalidating
  <1> QED
    BY <1>1, <1>2, <1>3 DEF CacheAgrees, SyncedAgrees

LEMMA ListingSteps ==
  ASSUME CatalogInv, SyncList \/ SyncPage
  PROVE  CatalogInv'
  <1>1. sync \in Syncing /\ pfaults \in 0..MaxPFaults /\ SyncAgrees /\ sold \subseteq Priced
        /\ (sync.step = "idle" => sync = NoSync)
    BY DEF CatalogInv, CatalogTyped, PTypeOK
  <1>2. UNCHANGED <<plan, sold, cache, reader, admin, overtaken, stale, interfered, mismatch, edits,
                    pfaults>>
    BY DEF SyncList, SyncPage
  <1>3. CASE SyncList
    <2>1. sync' = [NoSync EXCEPT !.step = "list"]
      BY <1>3 DEF SyncList
    <2>2. sync' \in Syncing /\ sync'.step = "list" /\ sync'.at = Null /\ sync'.listed = {}
          /\ sync'.prices = {} /\ sync'.seen = {}
      BY <2>1, NoSyncType DEF NoSync, Syncing
    <2>3. SyncAgrees'
      BY <1>2, <2>2 DEF SyncAgrees
    <2> QED
      BY <1>1, <1>2, <2>2, <2>3, SyncMoves
  <1>4. CASE SyncPage
    <2>1. PICK page \in SUBSET (sold \ sync.listed) :
            LET now == sync.listed \cup page
            IN  sync' = IF MorePages(now) THEN [sync EXCEPT !.listed = now]
                        ELSE [sync EXCEPT !.step = "prices", !.listed = {}, !.prices = now]
      BY <1>4 DEF SyncPage
    <2> DEFINE soFar == sync.listed \cup page
    <2>2. sync.step = "list" /\ sync.at = Null
      BY <1>1, <1>4 DEF SyncPage, CatalogInv, CatalogTyped
    <2>3. soFar \in SUBSET Priced
      BY <1>1 DEF Syncing
    <2>4. CASE MorePages(soFar)
      <3>1. /\ sync' \in Syncing /\ sync'.step = "list" /\ sync'.at = Null /\ sync'.listed = soFar
            /\ sync'.prices = sync.prices /\ sync'.seen = sync.seen
        BY <1>1, <2>1, <2>2, <2>3, <2>4 DEF Syncing
      <3>2. SyncAgrees'
        BY <1>1, <1>2, <2>2, <3>1 DEF SyncAgrees, Active
      <3> QED
        BY <1>1, <1>2, <3>1, <3>2, SyncMoves
    <2>5. CASE ~MorePages(soFar)
      <3>1. /\ sync' \in Syncing /\ sync'.step = "prices" /\ sync'.at = Null /\ sync'.prices = soFar
            /\ sync'.seen = sync.seen
        BY <1>1, <2>1, <2>2, <2>3, <2>5 DEF Syncing
      <3>2. SyncAgrees'
        BY <1>1, <1>2, <2>2, <2>5, <3>1 DEF SyncAgrees, Active, MorePages
      <3> QED
        BY <1>1, <1>2, <3>1, <3>2, SyncMoves
    <2> QED
      BY <2>4, <2>5
  <1> QED
    BY <1>3, <1>4

LEMMA PriceSteps ==
  ASSUME CatalogInv, SyncFind \/ SyncSave \/ SyncPriceFails \/ SyncExisting
  PROVE  CatalogInv'
  <1>1. /\ sync \in Syncing /\ pfaults \in 0..MaxPFaults /\ SyncAgrees /\ sold \subseteq Priced
        /\ plan \in [Catalog -> PlanRow \cup {Null}] /\ (sync.at # Null => sync.step = "prices")
        /\ Priced \subseteq Catalog /\ Null \notin Catalog \cup PlanRow
    BY CatalogAssumption DEF CatalogInv, CatalogTyped, PTypeOK
  <1>2. UNCHANGED <<sold, cache, reader, admin, stale, mismatch, edits>>
    BY DEF SyncFind, SyncSave, SyncPriceFails, SyncExisting
  <1>3. CASE SyncFind
    <2>1. PICK p \in sync.prices : sync' = [sync EXCEPT !.prices = @ \ {p}, !.at = p, !.row = plan[p]]
      BY <1>3 DEF SyncFind
    <2>2. p \in Priced /\ plan[p] \in PlanRow \cup {Null} /\ p # Null
      BY <1>1 DEF Syncing
    <2>3. /\ sync' \in Syncing /\ sync'.step = "prices" /\ sync'.at = p
          /\ sync'.prices = sync.prices \ {p} /\ sync'.seen = sync.seen /\ sync.at = Null
          /\ sync.step = "prices"
      BY <1>1, <1>3, <2>1, <2>2 DEF SyncFind, Syncing
    <2>4. SyncAgrees'
      <3>1. interfered' = interfered /\ plan' = plan /\ sold' = sold
        BY <1>3 DEF SyncFind
      <3>2. ~interfered => sync.prices \cup sync.seen = sold /\ \A q \in sync.seen : Active(q)
        BY <1>1, <2>3 DEF SyncAgrees
      <3>3. ~interfered => sync'.prices \cup sync'.seen \cup ({sync'.at} \ {Null}) = sold
        BY <2>2, <2>3, <3>2
      <3> QED
        BY <2>3, <3>1, <3>2, <3>3 DEF SyncAgrees, Active
    <2> QED
      BY <1>1, <1>2, <1>3, <2>3, <2>4, SyncMoves DEF SyncFind
  <1>4. CASE SyncSave
    <2> DEFINE p == sync.at
               row == SyncedRow(sync.row)
    <2>1. p \in Priced /\ p # Null /\ row \in PlanRow /\ row.active
      BY <1>1, <1>4 DEF SyncSave, Syncing, SyncedRow, PlanRow
    <2>2. SavePlan(p, row) /\ sync' = [sync EXCEPT !.at = Null, !.row = Null, !.seen = @ \cup {p}]
          /\ UNCHANGED <<sold, cache, reader, admin, stale, interfered, mismatch, edits, pfaults>>
      BY <1>4 DEF SyncSave
    <2>3. /\ sync' \in Syncing /\ sync'.step = "prices" /\ sync'.at = Null /\ sync.step = "prices"
          /\ sync'.prices = sync.prices /\ sync'.seen = sync.seen \cup {p}
      BY <1>1, <2>1, <2>2 DEF Syncing
    <2>4. plan'[p] = row /\ \A q \in Catalog \ {p} : plan'[q] = plan[q]
      BY <1>1, <2>1, <2>2, SavedRow
    <2> HIDE DEF p, row
    <2>5. SyncAgrees'
      <3>1. sync.at = p
        BY DEF p
      <3>2. ASSUME ~interfered, NEW q \in sync'.seen PROVE Active(q)'
        <4>1. sync.seen \subseteq Catalog /\ row # Null
          BY <1>1, <2>1 DEF Syncing
        <4> QED
          BY <1>1, <2>1, <2>3, <2>4, <3>2, <4>1 DEF SyncAgrees, Active
      <3> QED
        BY <1>1, <2>1, <2>2, <2>3, <3>1, <3>2 DEF SyncAgrees
    <2> QED
      BY <2>1, <2>2, <2>3, <2>5, SyncSaves
  <1>5. CASE SyncPriceFails
    <2>1. /\ sync' \in Syncing /\ sync'.step = sync.step /\ sync'.at = Null /\ sync.step = "prices"
          /\ interfered'
      BY <1>1, <1>5 DEF SyncPriceFails, Syncing
    <2>2. SyncAgrees'
      BY <2>1 DEF SyncAgrees
    <2>3. pfaults' \in 0..MaxPFaults
      BY <1>1, <1>5, CatalogAssumption DEF SyncPriceFails, PFault
    <2> QED
      BY <1>1, <1>2, <1>5, <2>1, <2>2, <2>3, SyncMoves DEF SyncPriceFails
  <1>6. CASE SyncExisting
    <2> DEFINE found == {[id |-> p, row |-> plan[p]] : p \in {q \in Priced \ sync.seen : plan[q] # Null}}
               plans == IF sync.seen = {} THEN {} ELSE found
    <2>1. /\ sync' = [sync EXCEPT !.step = "plans", !.plans = plans]
          /\ sync.step = "prices" /\ sync.prices = {} /\ sync.at = Null
      BY <1>6 DEF SyncExisting
    <2>2. /\ found \in SUBSET Entry
          /\ \A entry \in found : entry.id \notin sync.seen
          /\ \A p \in Priced \ sync.seen : plan[p] # Null => \E entry \in found : entry.id = p
      <3>1. ASSUME NEW e \in found PROVE e \in Entry /\ e.id \notin sync.seen
        <4>1. PICK p \in {q \in Priced \ sync.seen : plan[q] # Null} : e = [id |-> p, row |-> plan[p]]
          BY <3>1
        <4>2. plan[p] \in PlanRow
          BY <1>1, <4>1
        <4> QED
          BY <4>1, <4>2 DEF Entry
      <3>2. ASSUME NEW p \in Priced \ sync.seen, plan[p] # Null
            PROVE  \E e \in found : e.id = p
        <4>1. [id |-> p, row |-> plan[p]] \in found
          BY <3>2
        <4> QED
          BY <4>1
      <3> QED
        BY <3>1, <3>2
    <2>3. /\ plans \in SUBSET Entry
          /\ \A entry \in plans : entry.id \notin sync.seen
          /\ sync.seen # {} =>
               \A p \in Priced \ sync.seen : plan[p] # Null => \E entry \in plans : entry.id = p
      BY <2>2
    <2> HIDE DEF plans, found
    <2>4. sync' \in Syncing /\ sync'.step = "plans" /\ sync'.at = Null /\ sync'.seen = sync.seen
          /\ sync'.plans = plans
      BY <1>1, <2>1, <2>3 DEF Syncing
    <2>5. SyncAgrees'
      <3>1. ~interfered => sync.seen = sold
        BY <1>1, <2>1 DEF SyncAgrees
      <3> QED
        BY <1>1, <1>6, <2>3, <2>4, <3>1 DEF SyncExisting, SyncAgrees, Active
    <2> QED
      BY <1>1, <1>2, <1>6, <2>4, <2>5, SyncMoves DEF SyncExisting
  <1> QED
    BY <1>3, <1>4, <1>5, <1>6

LEMMA DeactivateStep == ASSUME CatalogInv, SyncDeactivate PROVE CatalogInv'
  <1>1. /\ sync \in Syncing /\ SyncAgrees /\ sold \subseteq Priced
        /\ plan \in [Catalog -> PlanRow \cup {Null}]
        /\ Priced \subseteq Catalog /\ Null \notin Catalog \cup PlanRow
    BY CatalogAssumption DEF CatalogInv, CatalogTyped, PTypeOK
  <1>2. PICK entry \in sync.plans : /\ SavePlan(entry.id, Deactivated(entry.row))
                                    /\ sync' = [sync EXCEPT !.plans = @ \ {entry}]
    BY DEF SyncDeactivate
  <1> DEFINE p == entry.id
             row == Deactivated(entry.row)
  <1>3. p \in Priced /\ row \in PlanRow /\ ~row.active
    <2>1. entry \in Entry
      BY <1>1 DEF Syncing
    <2> QED
      BY <2>1 DEF Entry, PlanRow, Deactivated
  <1>4. SavePlan(p, row)
    BY <1>2
  <1> HIDE DEF p, row
  <1>5. UNCHANGED <<sold, cache, reader, admin, stale, interfered, mismatch, edits, pfaults>>
        /\ sync.step = "plans"
    BY DEF SyncDeactivate
  <1>6. /\ sync' \in Syncing /\ sync'.step = "plans" /\ sync'.at = Null /\ sync'.seen = sync.seen
        /\ sync'.plans = sync.plans \ {entry}
    <2>1. sync.at = Null
      BY <1>5 DEF CatalogInv, CatalogTyped
    <2> QED
      BY <1>1, <1>2, <1>5, <2>1 DEF Syncing
  <1>7. plan'[p] = row /\ \A q \in Catalog \ {p} : plan'[q] = plan[q]
    BY <1>1, <1>3, <1>4, <1>5, SavedRow
  <1>8. SyncAgrees'
    <2> SUFFICES ASSUME ~interfered
                 PROVE  /\ sync.seen = sold
                        /\ \A e \in sync.plans \ {entry} : e.id \notin sold
                        /\ sync.seen # {} =>
                             \A q \in Priced \ sold :
                               Active(q)' => \E e \in sync.plans \ {entry} : e.id = q
                        /\ \A q \in sync.seen : Active(q)'
      BY <1>5, <1>6 DEF SyncAgrees
    <2>1. /\ sync.seen = sold /\ \A e \in sync.plans : e.id \notin sold
          /\ \A q \in sync.seen : Active(q)
      BY <1>1, <1>5 DEF SyncAgrees
    <2>2. \A q \in sync.seen : Active(q)'
      <3>1. p \notin sync.seen /\ sync.seen \subseteq Catalog
        BY <1>1, <2>1 DEF p
      <3> QED
        BY <1>7, <2>1, <3>1 DEF Active
    <2>3. ASSUME sync.seen # {}, NEW q \in Priced \ sold, Active(q)'
          PROVE  \E e \in sync.plans \ {entry} : e.id = q
      <3>1. q # p
        BY <1>3, <1>7, <2>3 DEF Active
      <3>2. Active(q)
        BY <1>1, <1>7, <2>3, <3>1 DEF Active
      <3>3. PICK e \in sync.plans : e.id = q
        BY <1>1, <1>5, <2>3, <3>2 DEF SyncAgrees
      <3> QED
        BY <3>1, <3>3 DEF p
    <2> QED
      BY <2>1, <2>2, <2>3
  <1> QED
    BY <1>3, <1>4, <1>5, <1>6, <1>8, SyncSaves

\* The sync ends: had nothing interfered, nothing is left wrong.
LEMMA EndingSteps == ASSUME CatalogInv, SyncFinish \/ SyncFails PROVE CatalogInv'
  <1> USE DEF CatalogInv
  <1>1. UNCHANGED <<plan, sold, reader, admin, overtaken, edits>> /\ sync' = NoSync /\ ~interfered'
    BY DEF SyncFinish, SyncFails
  <1>2. /\ pfaults' \in 0..MaxPFaults
        /\ cache' = Null \/ cache' = cache
        /\ cache' # Null => stale'
    <2>1. pfaults \in 0..MaxPFaults
      BY DEF CatalogTyped, PTypeOK
    <2>2. pfaults' = pfaults \/ PFault
      BY DEF SyncFinish, SyncFails, Invalidate
    <2>3. pfaults' \in 0..MaxPFaults
      BY <2>1, <2>2, CatalogAssumption DEF PFault
    <2>4. CASE SyncFinish
      BY <2>3, <2>4 DEF SyncFinish, Invalidate
    <2>5. CASE SyncFails
      <3>1. cache' = cache /\ stale' = (stale \/ cache # Null)
        BY <2>5 DEF SyncFails
      <3> QED
        BY <2>3, <3>1
    <2> QED
      BY <2>4, <2>5
  <1>3. CatalogTyped'
    BY <1>1, <1>2, NoSyncType DEF CatalogTyped, PTypeOK, Syncing
  <1>4. ReaderAgrees' /\ CacheAgrees' /\ SyncAgrees'
    BY <1>1, <1>2, NoSyncType DEF ReaderAgrees, CacheAgrees, SyncAgrees, Public
  <1>5. SyncedAgrees'
    <2>1. CASE SyncFails
      BY <2>1 DEF SyncFails, SyncedAgrees
    <2>2. CASE SyncFinish
      <3>1. ASSUME ~interfered, sync.seen # {} PROVE Mismatched = {}
        <4>1. sync.seen = sold /\ \A p \in Priced \ sold : ~Active(p)
          BY <2>2, <3>1 DEF SyncFinish, SyncAgrees
        <4>2. \A p \in sold : Active(p)
          BY <3>1, <4>1 DEF SyncAgrees
        <4>3. \A p \in Priced : plan[p] # Null => plan[p].active \in BOOLEAN
          BY CatalogAssumption DEF CatalogTyped, PTypeOK, PlanRow
        <4> QED
          BY <4>1, <4>2, <4>3 DEF Mismatched, Active
      <3> QED
        BY <2>2, <3>1 DEF SyncFinish, SyncedAgrees
    <2> QED
      BY <2>1, <2>2
  <1> QED
    BY <1>3, <1>4, <1>5

LEMMA CatalogStep == ASSUME CatalogInv, [PNext]_pvars PROVE CatalogInv'
  <1>1. CASE StripeEdits
    <2>1. sold' \subseteq Priced /\ edits' \in 0..MaxEdits
      BY <1>1, CatalogAssumption DEF StripeEdits, CatalogInv, CatalogTyped, PTypeOK
    <2>2. /\ interfered' = (sync # NoSync)
          /\ UNCHANGED <<plan, cache, reader, admin, sync, overtaken, stale, mismatch, pfaults>>
      BY <1>1 DEF StripeEdits
    <2>3. SyncAgrees'
      BY <2>2, NoSyncType DEF SyncAgrees
    <2> QED
      BY <2>1, <2>2, <2>3 DEF CatalogInv, CatalogTyped, PTypeOK, ReaderAgrees, CacheAgrees,
                              Invalidating, SyncedAgrees, Public
  <1>2. CASE UNCHANGED pvars
    BY <1>2 DEF pvars, CatalogInv, CatalogTyped, PTypeOK, ReaderAgrees, CacheAgrees, Invalidating,
                SyncAgrees, SyncedAgrees, Public, Active
  <1> QED
    BY <1>1, <1>2, AdminSteps, ReaderSteps, ListingSteps, PriceSteps, DeactivateStep, EndingSteps
    DEF PNext

LEMMA CatalogHolds == PSpec => []CatalogInv
  <1>1. PInit => CatalogInv
    BY CatalogInit
  <1>2. CatalogInv /\ [PNext]_pvars => CatalogInv'
    BY CatalogStep
  <1> QED
    BY <1>1, <1>2, PTL DEF PSpec

\* Plans, the cached list, the requests and the sync have their types.
THEOREM CatalogTypeCorrect == PSpec => []PTypeOK
  <1>1. CatalogInv => PTypeOK
    BY DEF CatalogInv, CatalogTyped
  <1> QED
    BY <1>1, CatalogHolds, PTL

\* The cached list is the list of the database, but for the excuses that the property
\* names: for any plans and administrators.
THEOREM CachedListAgrees == PSpec => []CacheAgrees
  <1>1. CatalogInv => CacheAgrees
    BY DEF CatalogInv
  <1> QED
    BY <1>1, CatalogHolds, PTL

\* A sync that nothing interferes with leaves active the plans whose prices are sold and
\* no others that have a price: for any prices, on pages of any size.
THEOREM SyncAgreesWithStripe == PSpec => []SyncedAgrees
  <1>1. CatalogInv => SyncedAgrees
    BY DEF CatalogInv
  <1> QED
    BY <1>1, CatalogHolds, PTL

-----------------------------------------------------------------------------
(* Both in one specification: what is invariant of each stays so when only *)
(* the other one runs.                                                     *)

\* What the run of both checks is a behaviour of each of them.
THEOREM PlansImplementBoth == PlansSpec => Spec /\ PSpec
  <1>1. PlansInit => Init /\ PInit
    BY DEF PlansInit
  <1>2. [PlansNext]_<<running, vars, pvars>> => [Next]_vars /\ [PNext]_pvars
    BY DEF PlansNext
  <1> QED
    BY <1>1, <1>2, PTL DEF PlansSpec, Spec, PSpec

\* Hence the invariants of both hold of the specification that the run checks.
THEOREM PlansAreSafe ==
  PlansSpec => [](/\ NegativeIsClamped /\ OvershootBounded /\ ClearedIsSummarised /\ WarnedOnce
                  /\ CacheAgrees /\ SyncedAgrees)
  BY PlansImplementBoth, NegativesAreClamped, OvershootIsBounded, ResetsAreSummarised, WarnsOnce,
     CachedListAgrees, SyncAgreesWithStripe, PTL

\* The type invariant that the run of both checks: UsageMetering's when that one runs,
\* PlanCatalog's when that one does.
THEOREM PlansTypeCorrect == PlansSpec => []PlansTypeOK
  <1>1. TypeOK /\ PTypeOK => PlansTypeOK
    BY DEF PlansTypeOK
  <1> QED
    BY <1>1, PlansImplementBoth, TypeCorrect, CatalogTypeCorrect, PTL
=============================================================================
