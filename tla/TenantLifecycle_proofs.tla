----------------------- MODULE TenantLifecycle_proofs -----------------------
(***************************************************************************)
(* Proofs about TenantLifecycle, for any numbers of handlers, days and     *)
(* attempts and any grace period.                                          *)
(*                                                                         *)
(* The row cannot carry the argument for DeletedAfterGrace: an update sets *)
(* its status, a stale save its date.  The job carries it: it was queued   *)
(* by a request, with a due date a grace period later, an existing job is  *)
(* never replaced, and the worker that deletes the row runs that job.      *)
(***************************************************************************)
EXTENDS TenantLifecycle, FiniteSetTheorems, TLAPS

\* What a request that is about to save or to queue has in its copy.
CopiesDated ==
  \A h \in Handlers :
    /\ op[h] = "schedule" /\ pc[h] \in {"save", "queue"} =>
         copy[h].scheduledAt \in requestedOn
    /\ op[h] = "lock" /\ pc[h] \in {"save", "queue"} =>
         copy[h].lockUntil \in Nat \cup {Undef}
    /\ op[h] = "lock" /\ pc[h] = "queue" => copy[h].lockUntil # Undef

\* The deletion job waits for the end of the grace period of some request.
JobDated ==
  deletionJob # Null => \E d \in requestedOn : deletionJob.due - d >= Grace

\* Operation o runs exactly while its job is active, in one handler.
OneRun(o, job) ==
  /\ \A h \in Handlers : op[h] = o => job # Null /\ job.state = "active"
  /\ \A h, g \in Handlers : op[h] = o /\ op[g] = o => h = g
  /\ job # Null /\ job.state = "active" => \E h \in Handlers : op[h] = o

\* The execution does not start before its job is due.
ExecutionDue == \A h \in Handlers : op[h] = "execute" => deletionJob.due <= now

Busy == \A h \in Handlers : pc[h] = "idle" => op[h] = "none"

Runs == OneRun("autoUnlock", unlockJob) /\ OneRun("execute", deletionJob)

Inv == TypeOK /\ CopiesDated /\ JobDated /\ Runs /\ ExecutionDue /\ Busy
         /\ DeletedAfterGrace
-----------------------------------------------------------------------------
(* The helpers.                                                            *)

LEMMA NewTenantType == NewTenant \in Row /\ NewTenant \in Copy
BY DEF NewTenant, Row, Copy, Status, Date

LEMMA RowIsCopy == ASSUME NEW r \in Row PROVE r \in Copy
BY DEF Row, Copy

LEMMA JobsType ==
  /\ \A day \in Nat : NewJob(day) \in Job /\ NewJob(day).due = day
                      /\ NewJob(day).state = "waiting"
  /\ \A job \in Job :
       /\ Retried(job) \in Job /\ Retried(job).due = job.due
       /\ Retried(job).state # "active"
       /\ Completed(job) \in Job /\ Completed(job).due = job.due
       /\ Completed(job).state # "active"
<1>1. ASSUME NEW job \in Job
      PROVE  /\ Retried(job) \in Job /\ Retried(job).due = job.due
             /\ Retried(job).state # "active"
  BY DEF Job, Retried
<1>2. ASSUME NEW job \in Job
      PROVE  /\ Completed(job) \in Job /\ Completed(job).due = job.due
             /\ Completed(job).state # "active"
  BY DEF Job, Completed
<1>3. ASSUME NEW day \in Nat
      PROVE  NewJob(day) \in Job /\ NewJob(day).due = day /\ NewJob(day).state = "waiting"
  BY DEF Job, NewJob
<1> QED BY <1>1, <1>2, <1>3

LEMMA AddedType ==
  ASSUME NEW job \in Job \cup {Null}, NEW day \in Nat
  PROVE  /\ Added(job, day) \in Job
         /\ job = Null => Added(job, day).due = day
         /\ job # Null => Added(job, day) = job
BY JobsType DEF Added

\* save writes a row, with null or an earlier date where the copy has none.
LEMMA WrittenType ==
  ASSUME NEW old \in Row \cup {Null}, NEW c \in Copy
  PROVE  Written(old, c) \in Row
<1> DEFINE kept(col) == IF old = Null THEN Null ELSE old[col]
<1>1. kept("lockUntil") \in Date /\ kept("scheduledAt") \in Date
  BY DEF Row, Date
<1>2. /\ c.status \in Status
      /\ c.lockUntil \in Date \cup {Undef}
      /\ c.scheduledAt \in Date \cup {Undef}
  BY DEF Copy
<1>3. /\ (IF c.lockUntil = Undef THEN kept("lockUntil") ELSE c.lockUntil) \in Date
      /\ (IF c.scheduledAt = Undef THEN kept("scheduledAt") ELSE c.scheduledAt) \in Date
  BY <1>1, <1>2
<1> QED BY <1>2, <1>3 DEF Written, Row

\* The copies of the operations, and the two kinds the jobs depend on.
LEMMA ChangedType ==
  ASSUME NEW r \in Row, NEW o, NEW c \in Changed(o, r), now \in Nat
  PROVE  /\ c \in Copy
         /\ o = "schedule" => c.scheduledAt = now
         /\ o = "lock" => c.lockUntil \in Nat \cup {Undef}
<1>1. r \in Copy
  BY RowIsCopy
<1>2. CASE o = "lock"
  <2>1. PICK d \in 0 .. MaxDay \cup {Undef} :
               c = [r EXCEPT !.status = "locked", !.lockUntil = d]
    BY <1>2 DEF Changed
  <2>2. d \in Nat \cup {Undef}
    BY ConstantsAssumption
  <2> QED BY <1>2, <2>1, <2>2 DEF Copy, Row, Status, Date
<1>3. CASE o = "update"
  BY <1>3 DEF Changed, Copy, Row, Status, Date
<1>4. CASE o \notin {"lock", "update"}
  BY <1>1, <1>4 DEF Changed, Copy, Row, Status, Date
<1> QED BY <1>2, <1>3, <1>4
-----------------------------------------------------------------------------
LEMMA InitInv == Init => Inv
<1> SUFFICES ASSUME Init PROVE Inv
  OBVIOUS
<1>1. TypeOK
  BY NewTenantType, ConstantsAssumption DEF Init, TypeOK, Date
<1>2. CopiesDated /\ JobDated /\ Runs /\ ExecutionDue /\ Busy /\ DeletedAfterGrace
  BY DEF Init, CopiesDated, JobDated, Runs, OneRun, ExecutionDue, Busy, DeletedAfterGrace
<1> QED BY <1>1, <1>2 DEF Inv

\* The parts of the invariant about handlers and jobs.
Slots == /\ pc \in [Handlers -> {"idle", "load", "save", "queue"}]
         /\ op \in [Handlers -> Guarded \cup Unguarded \cup JobOps \cup {"none"}]
         /\ copy \in [Handlers -> Copy]
         /\ unlockJob \in Job \cup {Null} /\ deletionJob \in Job \cup {Null}
         /\ CopiesDated /\ JobDated /\ Runs /\ ExecutionDue /\ Busy

\* The slot of a request falls free; a job that is not active may be forgotten.
LEMMA RequestEnds ==
  ASSUME Inv, NEW h \in Handlers, Return(h), UNCHANGED <<now, requestedOn>>,
         op[h] \notin JobOps,
         unlockJob' = unlockJob, deletionJob' = deletionJob
  PROVE  Slots'
<1>1. /\ pc' \in [Handlers -> {"idle", "load", "save", "queue"}]
      /\ op' \in [Handlers -> Guarded \cup Unguarded \cup JobOps \cup {"none"}]
      /\ copy' \in [Handlers -> Copy]
  BY NewTenantType DEF Return, Inv, TypeOK
<1>2. \A g \in Handlers : g # h => pc'[g] = pc[g] /\ op'[g] = op[g] /\ copy'[g] = copy[g]
  BY DEF Return, Inv, TypeOK
<1>3. pc'[h] = "idle" /\ op'[h] = "none"
  BY DEF Return, Inv, TypeOK
<1>4. CopiesDated'
  BY <1>2, <1>3 DEF CopiesDated, Inv
<1>5. JobDated' /\ ExecutionDue' /\ Busy'
  BY <1>2, <1>3 DEF JobDated, ExecutionDue, Busy, Inv
<1>6. Runs'
  BY <1>2, <1>3 DEF Runs, OneRun, Inv, JobOps
<1> QED BY <1>1, <1>4, <1>5, <1>6 DEF Slots, Inv, TypeOK

\* A job that throws or completes frees its slot, keeps its date, and is not active.
LEMMA JobEnds ==
  ASSUME Inv, NEW h \in Handlers, op[h] \in JobOps, UNCHANGED <<now, requestedOn>>,
         JobThrows(h) \/ JobCompletes(h)
  PROVE  Slots'
<1>1. PICK job \in {Retried(JobOf(h)), Completed(JobOf(h))} :
             JobBecomes(h, job) /\ Return(h)
  BY DEF JobThrows, JobCompletes
<1>2. JobOf(h) \in Job
  BY DEF JobOf, Inv, TypeOK, Runs, OneRun, JobOps
<1>3. job \in Job /\ job.due = JobOf(h).due /\ job.state # "active"
  BY <1>2, JobsType
<1>4. /\ pc' \in [Handlers -> {"idle", "load", "save", "queue"}]
      /\ op' \in [Handlers -> Guarded \cup Unguarded \cup JobOps \cup {"none"}]
      /\ copy' \in [Handlers -> Copy]
  BY <1>1, NewTenantType DEF Return, Inv, TypeOK
<1>5. \A g \in Handlers : g # h => pc'[g] = pc[g] /\ op'[g] = op[g] /\ copy'[g] = copy[g]
  BY <1>1 DEF Return, Inv, TypeOK
<1>6. pc'[h] = "idle" /\ op'[h] = "none"
  BY <1>1 DEF Return, Inv, TypeOK
<1>7. CopiesDated' /\ Busy'
  BY <1>5, <1>6 DEF CopiesDated, Busy, Inv
<1>8. CASE op[h] = "autoUnlock"
  <2>1. unlockJob' = job /\ deletionJob' = deletionJob
    BY <1>1, <1>8 DEF JobBecomes
  <2>2. JobDated' /\ ExecutionDue'
    BY <1>5, <1>6, <2>1 DEF JobDated, ExecutionDue, Inv
  <2>3. Runs'
    BY <1>3, <1>5, <1>6, <1>8, <2>1 DEF Runs, OneRun, Inv
  <2> QED BY <1>3, <1>4, <1>7, <2>1, <2>2, <2>3 DEF Slots, Inv, TypeOK
<1>9. CASE op[h] = "execute"
  <2>1. unlockJob' = unlockJob /\ deletionJob' = job /\ job.due = deletionJob.due
    BY <1>1, <1>3, <1>9 DEF JobBecomes, JobOf
  <2>2. deletionJob # Null
    BY <1>9 DEF Inv, Runs, OneRun
  <2>3. JobDated' /\ ExecutionDue'
    BY <1>5, <1>6, <2>1, <2>2 DEF JobDated, ExecutionDue, Inv
  <2>4. Runs'
    BY <1>3, <1>5, <1>6, <1>9, <2>1 DEF Runs, OneRun, Inv
  <2> QED BY <1>3, <1>4, <1>7, <2>1, <2>3, <2>4 DEF Slots, Inv, TypeOK
<1> QED BY <1>8, <1>9 DEF JobOps
-----------------------------------------------------------------------------
(* One lemma per action.                                                   *)

LEMMA NextDayInv == Inv /\ NextDay => Inv'
<1> SUFFICES ASSUME Inv, NextDay PROVE Inv'
  OBVIOUS
<1> USE DEF NextDay, jobVars, history, Inv
<1>1. TypeOK'
  BY DEF TypeOK
<1>2. CopiesDated' /\ JobDated' /\ Runs' /\ Busy' /\ DeletedAfterGrace'
  BY DEF CopiesDated, JobDated, Runs, OneRun, Busy, DeletedAfterGrace
<1>3. ExecutionDue'
  BY DEF ExecutionDue, TypeOK, Job, Runs, OneRun
<1> QED BY <1>1, <1>2, <1>3

LEMMA ForgetInv == Inv /\ Forget => Inv'
<1> SUFFICES ASSUME Inv, Forget PROVE Inv'
  OBVIOUS
<1> USE DEF Forget, history, Inv
<1>1. TypeOK'
  BY DEF TypeOK
<1>2. CopiesDated' /\ JobDated' /\ Busy' /\ DeletedAfterGrace'
  BY DEF CopiesDated, JobDated, Busy, DeletedAfterGrace
<1>3. Runs' /\ ExecutionDue'
  BY DEF Runs, OneRun, ExecutionDue
<1> QED BY <1>1, <1>2, <1>3

LEMMA TakeInv == \A h \in Handlers : Inv /\ Take(h) => Inv'
<1> SUFFICES ASSUME NEW h \in Handlers, Inv, Take(h) PROVE Inv'
  OBVIOUS
<1>1. op[h] = "none" /\ op'[h] \in JobOps /\ pc'[h] = "load"
  BY DEF Take, Inv, Busy, TypeOK, JobOps
<1>2. \A g \in Handlers : g # h => pc'[g] = pc[g] /\ op'[g] = op[g]
  BY DEF Take, Inv, TypeOK
<1>3. /\ pc' \in [Handlers -> {"idle", "load", "save", "queue"}]
      /\ op' \in [Handlers -> Guarded \cup Unguarded \cup JobOps \cup {"none"}]
  BY DEF Take, Inv, TypeOK, JobOps
<1>4. CopiesDated' /\ Busy'
  BY <1>1, <1>2 DEF Take, history, CopiesDated, Busy, Inv, JobOps
<1>5. DeletedAfterGrace'
  BY DEF Take, history, DeletedAfterGrace, Inv
<1>6. CASE op'[h] = "autoUnlock"
  <2>1. /\ unlockJob \in Job /\ unlockJob.state = "waiting"
        /\ unlockJob' = [unlockJob EXCEPT !.state = "active"]
        /\ deletionJob' = deletionJob
    BY <1>6 DEF Take, Inv, TypeOK
  <2>2. unlockJob' \in Job /\ unlockJob'.state = "active" /\ unlockJob' # Null
    BY <2>1, NullAssumption DEF Job
  <2>3. TypeOK'
    BY <1>3, <2>1, <2>2 DEF Take, history, TypeOK, Inv
  <2>4. JobDated' /\ ExecutionDue'
    BY <1>2, <1>6, <2>1 DEF Take, history, JobDated, ExecutionDue, Inv
  <2>5. Runs'
    BY <1>1, <1>2, <1>6, <2>1, <2>2 DEF Runs, OneRun, Inv
  <2> QED BY <1>4, <1>5, <2>3, <2>4, <2>5 DEF Inv
<1>7. CASE op'[h] = "execute"
  <2>1. /\ deletionJob \in Job /\ deletionJob.state = "waiting" /\ deletionJob.due <= now
        /\ deletionJob' = [deletionJob EXCEPT !.state = "active"]
        /\ unlockJob' = unlockJob /\ now' = now /\ deletionJob # Null
    BY <1>7 DEF Take, Inv, TypeOK
  <2>2. /\ deletionJob' \in Job /\ deletionJob'.state = "active" /\ deletionJob' # Null
        /\ deletionJob'.due = deletionJob.due
    BY <2>1, NullAssumption DEF Job
  <2>3. TypeOK'
    BY <1>3, <2>1, <2>2 DEF Take, history, TypeOK, Inv
  <2>4. JobDated' /\ ExecutionDue'
    BY <1>2, <1>7, <2>1, <2>2 DEF Take, history, JobDated, ExecutionDue, Inv
  <2>5. Runs'
    BY <1>1, <1>2, <1>7, <2>1, <2>2 DEF Runs, OneRun, Inv
  <2> QED BY <1>4, <1>5, <2>3, <2>4, <2>5 DEF Inv
<1> QED BY <1>1, <1>6, <1>7 DEF JobOps

\* A slot that goes on with the same operation, or begins a request.
LEMMA SlotMoves ==
  ASSUME Inv, NEW h \in Handlers,
         UNCHANGED jobVars, now' = now,
         NEW p \in {"idle", "load", "save", "queue"}, pc' = [pc EXCEPT ![h] = p],
         \/ op' = op
         \/ pc[h] = "idle" /\ \E o \in Guarded \cup Unguarded : op' = [op EXCEPT ![h] = o],
         p # "idle"
  PROVE  /\ pc' \in [Handlers -> {"idle", "load", "save", "queue"}]
         /\ op' \in [Handlers -> Guarded \cup Unguarded \cup JobOps \cup {"none"}]
         /\ unlockJob' \in Job \cup {Null} /\ deletionJob' \in Job \cup {Null}
         /\ Runs' /\ ExecutionDue' /\ Busy'
<1>1. /\ pc' \in [Handlers -> {"idle", "load", "save", "queue"}]
      /\ op' \in [Handlers -> Guarded \cup Unguarded \cup JobOps \cup {"none"}]
      /\ unlockJob' \in Job \cup {Null} /\ deletionJob' \in Job \cup {Null}
  BY DEF Inv, TypeOK, jobVars
<1>2. \A g \in Handlers : g # h => pc'[g] = pc[g] /\ op'[g] = op[g]
  BY DEF Inv, TypeOK
<1>3. \/ op'[h] = op[h]
      \/ op[h] = "none" /\ op'[h] \notin JobOps
  BY DEF Inv, TypeOK, Busy, Guarded, Unguarded, JobOps
<1>4. Busy'
  BY <1>2 DEF Inv, TypeOK, Busy
<1>5. \A g \in Handlers, o \in JobOps : op'[g] = o <=> op[g] = o
  BY <1>2, <1>3 DEF JobOps
<1>6. Runs' /\ ExecutionDue'
  BY <1>5 DEF Inv, Runs, OneRun, ExecutionDue, jobVars, JobOps
<1> QED BY <1>1, <1>4, <1>6

LEMMA BeginInv ==
  \A h \in Handlers, o \in Guarded \cup Unguarded : Inv /\ Begin(h, o) => Inv'
<1> SUFFICES ASSUME NEW h \in Handlers, NEW o \in Guarded \cup Unguarded, Inv, Begin(h, o)
             PROVE  Inv'
  OBVIOUS
<1>1. /\ pc' \in [Handlers -> {"idle", "load", "save", "queue"}]
      /\ op' \in [Handlers -> Guarded \cup Unguarded \cup JobOps \cup {"none"}]
      /\ unlockJob' \in Job \cup {Null} /\ deletionJob' \in Job \cup {Null}
      /\ Runs' /\ ExecutionDue' /\ Busy'
  BY SlotMoves DEF Begin
<1>2. TypeOK'
  BY <1>1, ConstantsAssumption DEF Begin, history, Inv, TypeOK
<1>3. CopiesDated'
  BY DEF Begin, history, Inv, TypeOK, CopiesDated
<1>4. JobDated' /\ DeletedAfterGrace'
  BY DEF Begin, history, jobVars, Inv, JobDated, DeletedAfterGrace
<1> QED BY <1>1, <1>2, <1>3, <1>4 DEF Inv

LEMMA LoadInv == \A h \in Handlers : Inv /\ Load(h) => Inv'
<1> SUFFICES ASSUME NEW h \in Handlers, Inv, Load(h) PROVE Inv'
  OBVIOUS
<1>1. PICK c \in Changed(op[h], row) : copy' = [copy EXCEPT ![h] = c]
  BY DEF Load
<1>2. row \in Row /\ now \in Nat
  BY DEF Load, GoesOn, Inv, TypeOK
<1>3. /\ c \in Copy
      /\ op[h] = "schedule" => c.scheduledAt = now
      /\ op[h] = "lock" => c.lockUntil \in Nat \cup {Undef}
  BY <1>2, ChangedType
<1>4. /\ pc' \in [Handlers -> {"idle", "load", "save", "queue"}]
      /\ op' \in [Handlers -> Guarded \cup Unguarded \cup JobOps \cup {"none"}]
      /\ unlockJob' \in Job \cup {Null} /\ deletionJob' \in Job \cup {Null}
      /\ Runs' /\ ExecutionDue' /\ Busy'
  BY SlotMoves DEF Load
<1>5. requestedOn \subseteq requestedOn' /\ requestedOn' \subseteq Nat
      /\ (op[h] = "schedule" => now \in requestedOn')
  BY <1>2 DEF Load, Inv, TypeOK
<1>6. TypeOK'
  BY <1>1, <1>3, <1>4, <1>5 DEF Load, Inv, TypeOK
<1>7. /\ pc'[h] = "save" /\ op' = op /\ copy'[h] = c
      /\ \A g \in Handlers : g # h => pc'[g] = pc[g] /\ copy'[g] = copy[g]
  BY <1>1 DEF Load, Inv, TypeOK
<1>8. CopiesDated'
  BY <1>3, <1>5, <1>7 DEF Inv, CopiesDated
<1>9. JobDated' /\ DeletedAfterGrace'
  BY <1>5 DEF Load, jobVars, Inv, JobDated, DeletedAfterGrace
<1> QED BY <1>4, <1>6, <1>8, <1>9 DEF Inv

\* The steps after which only the slot, and perhaps the row, is different.
LEMMA SlotsInv ==
  ASSUME Inv, Slots', UNCHANGED <<now, history, ops>>,
         row' \in Row \cup {Null}, faults' \in 0 .. MaxFaults
  PROVE  Inv'
<1>1. TypeOK'
  BY DEF Inv, TypeOK, Slots, history
<1>2. DeletedAfterGrace'
  BY DEF Inv, DeletedAfterGrace, history
<1> QED BY <1>1, <1>2 DEF Inv, Slots

LEMMA RefuseInv == \A h \in Handlers : Inv /\ Refuse(h) => Inv'
<1> SUFFICES ASSUME NEW h \in Handlers, Inv, Refuse(h) PROVE Inv'
  OBVIOUS
<1>1. Slots'
  BY RequestEnds DEF Refuse, history, jobVars, JobOps
<1> QED BY <1>1, SlotsInv DEF Refuse, history, Inv, TypeOK

LEMMA SaveInv == \A h \in Handlers : Inv /\ Save(h) => Inv'
<1> SUFFICES ASSUME NEW h \in Handlers, Inv, Save(h) PROVE Inv'
  OBVIOUS
<1>1. row' \in Row
  BY WrittenType DEF Save, Inv, TypeOK
<1>2. CASE Return(h)
  <2>1. Slots'
    BY <1>2, RequestEnds DEF Save, history, jobVars
  <2> QED BY <1>1, <2>1, SlotsInv DEF Save, history, Inv, TypeOK
<1>3. CASE /\ pc' = [pc EXCEPT ![h] = "queue"] /\ UNCHANGED <<op, copy>>
           /\ op[h] = "lock" => copy[h].lockUntil # Undef
  <2>1. /\ pc' \in [Handlers -> {"idle", "load", "save", "queue"}]
        /\ op' \in [Handlers -> Guarded \cup Unguarded \cup JobOps \cup {"none"}]
        /\ unlockJob' \in Job \cup {Null} /\ deletionJob' \in Job \cup {Null}
        /\ Runs' /\ ExecutionDue' /\ Busy'
    BY <1>3, SlotMoves DEF Save
  <2>2. /\ pc[h] = "save" /\ pc'[h] = "queue"
        /\ \A g \in Handlers : g # h => pc'[g] = pc[g]
    BY <1>3 DEF Save, Inv, TypeOK
  <2>3. CopiesDated'
    BY <1>3, <2>2 DEF Save, history, Inv, CopiesDated
  <2>4. JobDated' /\ copy' \in [Handlers -> Copy]
    BY <1>3 DEF Save, history, jobVars, Inv, TypeOK, JobDated
  <2>5. Slots'
    BY <2>1, <2>3, <2>4 DEF Slots
  <2> QED BY <1>1, <2>5, SlotsInv DEF Save, history, Inv, TypeOK
<1> QED BY <1>2, <1>3 DEF Save

LEMMA QueueJobInv == \A h \in Handlers : Inv /\ QueueJob(h) => Inv'
<1> SUFFICES ASSUME NEW h \in Handlers, Inv, QueueJob(h) PROVE Inv'
  OBVIOUS
<1>1. /\ op[h] \notin JobOps
      /\ \A g \in Handlers : g # h => pc'[g] = pc[g] /\ op'[g] = op[g] /\ copy'[g] = copy[g]
      /\ pc'[h] = "idle" /\ op'[h] = "none"
  BY DEF QueueJob, Return, Inv, TypeOK, JobOps
<1>2. /\ pc' \in [Handlers -> {"idle", "load", "save", "queue"}]
      /\ op' \in [Handlers -> Guarded \cup Unguarded \cup JobOps \cup {"none"}]
      /\ copy' \in [Handlers -> Copy]
  BY NewTenantType DEF QueueJob, Return, Inv, TypeOK
<1>3. CopiesDated' /\ Busy'
  BY <1>1 DEF QueueJob, history, Inv, CopiesDated, Busy
<1>4. \A g \in Handlers, o \in JobOps : op'[g] = o <=> op[g] = o
  BY <1>1 DEF JobOps
<1>5. CASE op[h] = "lock"
  <2>1. copy[h].lockUntil \in Nat
    BY <1>5 DEF QueueJob, Inv, CopiesDated
  <2>2. unlockJob' = Added(unlockJob, copy[h].lockUntil) /\ deletionJob' = deletionJob
    BY <1>5 DEF QueueJob
  <2>3. unlockJob' \in Job /\ (unlockJob # Null => unlockJob' = unlockJob)
        /\ (unlockJob = Null => unlockJob'.state = "waiting")
    BY <2>1, <2>2, AddedType, JobsType DEF Inv, TypeOK, Added
  <2>4. Runs' /\ ExecutionDue'
    BY <1>4, <2>2, <2>3 DEF QueueJob, Inv, Runs, OneRun, ExecutionDue, JobOps
  <2>5. JobDated'
    BY <2>2 DEF QueueJob, history, Inv, JobDated
  <2>6. Slots'
    BY <1>2, <1>3, <2>2, <2>3, <2>4, <2>5 DEF Slots, Inv, TypeOK
  <2> QED BY <2>6, SlotsInv DEF QueueJob, Inv, TypeOK
<1>6. CASE op[h] = "schedule"
  <2>1. copy[h].scheduledAt \in requestedOn /\ copy[h].scheduledAt \in Nat
    BY <1>6 DEF QueueJob, Inv, TypeOK, CopiesDated
  <2>2. /\ deletionJob' = Added(deletionJob, copy[h].scheduledAt + Grace)
        /\ unlockJob' = unlockJob
    BY <1>6 DEF QueueJob
  <2>3. /\ deletionJob' \in Job
        /\ deletionJob # Null => deletionJob' = deletionJob
        /\ deletionJob = Null => deletionJob'.state = "waiting"
                                  /\ deletionJob'.due - copy[h].scheduledAt >= Grace
    BY <2>1, <2>2, AddedType, JobsType, ConstantsAssumption DEF Inv, TypeOK, Added
  <2>4. Runs' /\ ExecutionDue'
    BY <1>4, <2>2, <2>3 DEF QueueJob, Inv, Runs, OneRun, ExecutionDue, JobOps
  <2>5. JobDated'
    BY <2>1, <2>3 DEF QueueJob, history, Inv, JobDated
  <2>6. Slots'
    BY <1>2, <1>3, <2>2, <2>3, <2>4, <2>5 DEF Slots, Inv, TypeOK
  <2> QED BY <2>6, SlotsInv DEF QueueJob, Inv, TypeOK
<1>7. CASE op[h] = "cancel"
  <2>1. /\ unlockJob' = unlockJob
        /\ deletionJob' = deletionJob
           \/ (deletionJob' = Null /\ ~(deletionJob # Null /\ deletionJob.state = "active"))
    BY <1>7 DEF QueueJob
  <2>2. Runs' /\ ExecutionDue'
    BY <1>4, <2>1 DEF QueueJob, Inv, Runs, OneRun, ExecutionDue, JobOps
  <2>3. JobDated'
    BY <2>1 DEF QueueJob, history, Inv, JobDated
  <2>4. Slots'
    BY <1>2, <1>3, <2>1, <2>2, <2>3 DEF Slots, Inv, TypeOK
  <2> QED BY <2>4, SlotsInv DEF QueueJob, Inv, TypeOK
<1> QED BY <1>5, <1>6, <1>7 DEF QueueJob

LEMMA RemoveInv == \A h \in Handlers : Inv /\ Remove(h) => Inv'
<1> SUFFICES ASSUME NEW h \in Handlers, Inv, Remove(h) PROVE Inv'
  OBVIOUS
<1>1. Slots'
  BY RequestEnds DEF Remove, history, jobVars, JobOps
<1> QED BY <1>1, SlotsInv DEF Remove, Inv, TypeOK

LEMMA LoadInJobInv == \A h \in Handlers : Inv /\ LoadInJob(h) => Inv'
<1> SUFFICES ASSUME NEW h \in Handlers, Inv, LoadInJob(h) PROVE Inv'
  OBVIOUS
<1>1. CASE JobThrows(h) \/ JobCompletes(h)
  <2>1. Slots'
    BY <1>1, JobEnds DEF LoadInJob, history
  <2> QED BY <2>1, SlotsInv DEF LoadInJob, Inv, TypeOK
<1>2. CASE /\ row # Null
           /\ \E c \in Changed(op[h], row) : copy' = [copy EXCEPT ![h] = c]
           /\ pc' = [pc EXCEPT ![h] = "save"]
           /\ UNCHANGED <<op, jobVars>>
  <2>1. PICK c \in Changed(op[h], row) : copy' = [copy EXCEPT ![h] = c]
    BY <1>2
  <2>2. row \in Row /\ c \in Copy
    BY <1>2, ChangedType DEF Inv, TypeOK
  <2>3. /\ pc' \in [Handlers -> {"idle", "load", "save", "queue"}]
        /\ op' \in [Handlers -> Guarded \cup Unguarded \cup JobOps \cup {"none"}]
        /\ unlockJob' \in Job \cup {Null} /\ deletionJob' \in Job \cup {Null}
        /\ Runs' /\ ExecutionDue' /\ Busy'
    BY <1>2, SlotMoves DEF LoadInJob
  <2>4. /\ op[h] \in JobOps /\ op' = op
        /\ \A g \in Handlers : g # h => pc'[g] = pc[g] /\ copy'[g] = copy[g]
    BY <1>2, <2>1 DEF LoadInJob, Inv, TypeOK
  <2>5. CopiesDated'
    BY <2>4 DEF LoadInJob, history, Inv, CopiesDated, JobOps
  <2>6. JobDated' /\ copy' \in [Handlers -> Copy]
    BY <1>2, <2>1, <2>2 DEF LoadInJob, history, jobVars, Inv, TypeOK, JobDated
  <2>7. Slots'
    BY <2>3, <2>5, <2>6 DEF Slots
  <2> QED BY <2>7, SlotsInv DEF LoadInJob, Inv, TypeOK
<1> QED BY <1>1, <1>2 DEF LoadInJob

LEMMA SaveUnlockedInv == \A h \in Handlers : Inv /\ SaveUnlocked(h) => Inv'
<1> SUFFICES ASSUME NEW h \in Handlers, Inv, SaveUnlocked(h) PROVE Inv'
  OBVIOUS
<1>1. row' \in Row
  BY WrittenType DEF SaveUnlocked, Inv, TypeOK
<1>2. Slots'
  BY JobEnds DEF SaveUnlocked, history, JobOps
<1> QED BY <1>1, <1>2, SlotsInv DEF SaveUnlocked, Inv, TypeOK

\* The deletion: its job was due, so some request is a grace period old.
LEMMA DeleteRowInv == \A h \in Handlers : Inv /\ DeleteRow(h) => Inv'
<1> SUFFICES ASSUME NEW h \in Handlers, Inv, DeleteRow(h) PROVE Inv'
  OBVIOUS
<1>1. Slots'
  BY JobEnds DEF DeleteRow, JobOps
<1>2. TypeOK'
  BY <1>1 DEF DeleteRow, Inv, TypeOK, Slots, Date
<1>3. deletionJob \in Job /\ deletionJob.due <= now
  BY DEF DeleteRow, Inv, TypeOK, Runs, OneRun, ExecutionDue
<1>4. PICK d \in requestedOn : deletionJob.due - d >= Grace
  BY <1>3, NullAssumption DEF Inv, JobDated
<1>5. now - d >= Grace
  <2>1. d \in Nat /\ now \in Nat /\ deletionJob.due \in Nat
    BY <1>3 DEF Inv, TypeOK, Job
  <2> QED BY <1>3, <1>4, <2>1, ConstantsAssumption
<1>6. DeletedAfterGrace'
  BY <1>4, <1>5 DEF DeleteRow, DeletedAfterGrace
<1> QED BY <1>1, <1>2, <1>6 DEF Inv, Slots

LEMMA FailInv == \A h \in Handlers : Inv /\ Fail(h) => Inv'
<1> SUFFICES ASSUME NEW h \in Handlers, Inv, Fail(h) PROVE Inv'
  OBVIOUS
<1>1. faults' \in 0 .. MaxFaults
  BY ConstantsAssumption DEF Fail, Inv, TypeOK
<1>2. Slots'
  BY RequestEnds, JobEnds DEF Fail, history, jobVars
<1> QED BY <1>1, <1>2, SlotsInv DEF Fail, Inv, TypeOK
-----------------------------------------------------------------------------
LEMMA StepInv == Inv /\ [Next]_vars => Inv'
<1> SUFFICES ASSUME Inv, [Next]_vars PROVE Inv'
  OBVIOUS
<1>1. CASE NextDay
  BY <1>1, NextDayInv
<1>2. CASE Forget
  BY <1>2, ForgetInv
<1>3. ASSUME NEW h \in Handlers, Take(h) PROVE Inv'
  BY <1>3, TakeInv
<1>4. ASSUME NEW h \in Handlers, NEW o \in Guarded \cup Unguarded, Begin(h, o) PROVE Inv'
  BY <1>4, BeginInv
<1>5. ASSUME NEW h \in Handlers, Continue(h) PROVE Inv'
  BY <1>5, LoadInv, RefuseInv, SaveInv, QueueJobInv, RemoveInv, LoadInJobInv,
     SaveUnlockedInv, DeleteRowInv DEF Continue
<1>6. ASSUME NEW h \in Handlers, Fail(h) PROVE Inv'
  BY <1>6, FailInv
<1>7. CASE UNCHANGED vars
  BY <1>7 DEF vars, Inv, TypeOK, CopiesDated, JobDated, Runs, OneRun, ExecutionDue, Busy,
              DeletedAfterGrace
<1> QED BY <1>1, <1>2, <1>3, <1>4, <1>5, <1>6, <1>7 DEF Next

LEMMA InvHolds == Spec => []Inv
<1> QED BY InitInv, StepInv, PTL DEF Spec

\* The row, the jobs and the copies in the handlers keep their types: null and
\* undefined never mix, whatever saves what (aware-tenant.service.ts:92-457).
THEOREM TypeCorrect == Spec => []TypeOK
<1>1. Inv => TypeOK
  BY DEF Inv
<1> QED BY <1>1, InvHolds, PTL

\* No interleaving of requests, stale saves, updates of the status, crashes and
\* retries lets the deletion job delete a tenant earlier than a grace period
\* after some request to delete it (aware-tenant.service.ts:302-332).
THEOREM DeletionWaits == Spec => []DeletedAfterGrace
<1>1. Inv => DeletedAfterGrace
  BY DEF Inv
<1> QED BY <1>1, InvHolds, PTL

\* A worker and the job it runs agree, although other requests add, replace and
\* remove jobs of the same id meanwhile (tenant.listener.ts:185-293).
THEOREM WorkersAndJobsAgree == Spec => []OneWorkerPerJob
<1>1. ASSUME Inv, NEW o \in JobOps
      PROVE  LET job == IF o = "autoUnlock" THEN unlockJob ELSE deletionJob
                 runs == {h \in Handlers : op[h] = o}
             IN  /\ Cardinality(runs) <= 1
                 /\ runs # {} <=> job # Null /\ job.state = "active"
  <2> DEFINE job == IF o = "autoUnlock" THEN unlockJob ELSE deletionJob
             runs == {h \in Handlers : op[h] = o}
  <2>1. OneRun(o, job)
    BY <1>1 DEF Inv, Runs, JobOps
  <2>2. CASE runs = {}
    <3>1. Cardinality(runs) = 0
      BY <2>2, FS_EmptySet
    <3> QED BY <2>1, <2>2, <3>1 DEF OneRun
  <2>3. CASE runs # {}
    <3>1. PICK h \in Handlers : op[h] = o
      BY <2>3
    <3>2. runs = {h}
      BY <2>1, <3>1 DEF OneRun
    <3>3. Cardinality(runs) = 1
      BY <3>2, FS_Singleton
    <3> QED BY <2>1, <2>3, <3>1, <3>3 DEF OneRun
  <2> QED BY <2>2, <2>3
<1>2. Inv => OneWorkerPerJob
  BY <1>1 DEF OneWorkerPerJob
<1> QED BY <1>2, InvHolds, PTL

-----------------------------------------------------------------------------
(* The course of a job.  A worker writes the job it runs, not knowing what *)
(* the requests have done to it; Runs says that it is still there.         *)

\* A job is queued where there is none, taken when it is due, ended or put back by its
\* worker, and dropped only while no worker runs it.
JobMoves(old, new) ==
  \/ new = old
  \/ old = Null /\ \E day \in Nat : new = NewJob(day)
  \/ old # Null /\ old.state = "waiting" /\ old.due <= now /\ new = [old EXCEPT !.state = "active"]
  \/ old # Null /\ old.state = "active" /\ new \in {Retried(old), Completed(old)}
  \/ old # Null /\ old.state # "active" /\ new = Null

JobsMove == JobMoves(unlockJob, unlockJob') /\ JobMoves(deletionJob, deletionJob')

\* An attempt is left to every job that is queued or runs.
AttemptsLeft == \A job \in {unlockJob, deletionJob} : job # Null => job.attempts < MaxAttempts

\* What a worker writes is the next state of the job it runs.
LEMMA WorkerMoves ==
  ASSUME Inv, NEW h \in Handlers, op[h] \in JobOps, JobThrows(h) \/ JobCompletes(h)
  PROVE  JobsMove
<1>1. JobOf(h) # Null /\ JobOf(h).state = "active"
  BY DEF JobOf, Inv, Runs, OneRun, JobOps
<1>2. PICK job \in {Retried(JobOf(h)), Completed(JobOf(h))} : JobBecomes(h, job)
  BY DEF JobThrows, JobCompletes
<1>3. CASE op[h] = "autoUnlock"
  BY <1>1, <1>2, <1>3 DEF JobOf, JobBecomes, JobsMove, JobMoves
<1>4. CASE op[h] = "execute"
  BY <1>1, <1>2, <1>4 DEF JobOf, JobBecomes, JobsMove, JobMoves
<1> QED BY <1>3, <1>4 DEF JobOps

\* A job that is added is new, or the one that was there.
LEMMA QueueMoves == ASSUME Inv, NEW h \in Handlers, QueueJob(h) PROVE JobsMove
<1>1. CASE op[h] = "lock"
  <2>1. copy[h].lockUntil \in Nat
    BY <1>1 DEF QueueJob, Inv, CopiesDated
  <2> QED BY <1>1, <2>1 DEF QueueJob, Added, JobsMove, JobMoves
<1>2. CASE op[h] = "schedule"
  <2>1. copy[h].scheduledAt + Grace \in Nat
    <3>1. copy[h].scheduledAt \in Nat
      BY <1>2 DEF QueueJob, Inv, TypeOK, CopiesDated
    <3> QED BY <3>1, ConstantsAssumption
  <2> QED BY <1>2, <2>1 DEF QueueJob, Added, JobsMove, JobMoves
<1>3. CASE op[h] = "cancel"
  <2>1. unlockJob' = unlockJob
    BY <1>3 DEF QueueJob
  <2>2. CASE deletionJob # Null /\ deletionJob.state = "active"
    BY <1>3, <2>1, <2>2 DEF QueueJob, JobsMove, JobMoves
  <2>3. CASE deletionJob # Null /\ deletionJob.state # "active"
    BY <1>3, <2>1, <2>3 DEF QueueJob, JobsMove, JobMoves
  <2>4. CASE deletionJob = Null
    BY <1>3, <2>1, <2>4 DEF QueueJob, JobsMove, JobMoves
  <2> QED BY <2>2, <2>3, <2>4
<1> QED BY <1>1, <1>2, <1>3 DEF QueueJob

LEMMA StepMoves == ASSUME Inv, [Next]_vars PROVE JobsMove
<1>1. CASE UNCHANGED jobVars
  BY <1>1 DEF jobVars, JobsMove, JobMoves
<1>2. CASE Forget
  BY <1>2 DEF Forget, JobsMove, JobMoves
<1>3. ASSUME NEW h \in Handlers, Take(h) PROVE JobsMove
  BY <1>3 DEF Take, JobsMove, JobMoves
<1>4. ASSUME NEW h \in Handlers, Continue(h) PROVE JobsMove
  <2>1. CASE Load(h) \/ Refuse(h) \/ Save(h) \/ Remove(h)
    <3>1. UNCHANGED jobVars
      BY <2>1 DEF Load, Refuse, Save, Remove, jobVars
    <3> QED BY <1>1, <3>1
  <2>2. CASE QueueJob(h)
    BY <2>2, QueueMoves
  <2>3. CASE LoadInJob(h)
    <3>1. op[h] \in JobOps /\ (JobThrows(h) \/ JobCompletes(h) \/ UNCHANGED jobVars)
      BY <2>3 DEF LoadInJob, jobVars
    <3> QED BY <1>1, <3>1, WorkerMoves
  <2>4. CASE SaveUnlocked(h) \/ DeleteRow(h)
    BY <2>4, WorkerMoves DEF SaveUnlocked, DeleteRow, JobOps
  <2> QED BY <1>4, <2>1, <2>2, <2>3, <2>4 DEF Continue
<1>5. ASSUME NEW h \in Handlers, Fail(h) PROVE JobsMove
  <2>1. (op[h] \in JobOps /\ JobThrows(h)) \/ UNCHANGED jobVars
    BY <1>5 DEF Fail
  <2> QED BY <1>1, <2>1, WorkerMoves
<1>6. CASE NextDay \/ (\E h \in Handlers, o \in Guarded \cup Unguarded : Begin(h, o)) \/ UNCHANGED vars
  <2>1. UNCHANGED jobVars
    BY <1>6 DEF NextDay, Begin, vars, jobVars
  <2> QED BY <1>1, <2>1
<1> QED BY <1>2, <1>3, <1>4, <1>5, <1>6 DEF Next

\* Whatever requests, workers, crashes and retries do at the same time, a job that a worker
\* runs is neither removed, replaced nor put back by anyone else, keeps the date it was
\* queued with, and is only taken when that date has come (tenant.listener.ts:185-293).
THEOREM JobsTakeTheirCourse == Spec => [][JobsMove]_jobVars
<1>1. Inv /\ [Next]_vars => [JobsMove]_jobVars
  BY StepMoves
<1> QED BY <1>1, InvHolds, PTL DEF Spec

\* No job is tried more often than it may be: every attempt of a job that still waits or
\* runs was preceded by fewer than MaxAttempts others.
THEOREM AttemptsAreBounded == Spec => []AttemptsLeft
<1>1. Init => AttemptsLeft
  BY DEF Init, AttemptsLeft
<1>2. ASSUME NEW old \in Job \cup {Null}, NEW new, JobMoves(old, new),
             old # Null => old.attempts < MaxAttempts, new # Null
      PROVE  new.attempts < MaxAttempts
  <2>1. CASE new = old
    BY <1>2, <2>1
  <2>2. ASSUME NEW day \in Nat, new = NewJob(day) PROVE new.attempts < MaxAttempts
    BY <2>2, ConstantsAssumption DEF NewJob
  <2>3. ASSUME old # Null, new \in {[old EXCEPT !.state = "active"], Completed(old), Retried(old)}
        PROVE  new.attempts < MaxAttempts
    <3>1. old \in Job
      BY <2>3
    <3> QED BY <1>2, <2>3, <3>1 DEF Job, Completed, Retried
  <2> QED BY <1>2, <2>1, <2>2, <2>3 DEF JobMoves
<1>3. AttemptsLeft /\ Inv /\ [Next]_vars => AttemptsLeft'
  <2> SUFFICES ASSUME AttemptsLeft, Inv, [Next]_vars PROVE AttemptsLeft'
    OBVIOUS
  <2>1. unlockJob \in Job \cup {Null} /\ deletionJob \in Job \cup {Null}
    BY DEF Inv, TypeOK
  <2>2. unlockJob' # Null => unlockJob'.attempts < MaxAttempts
    BY <1>2, <2>1, StepMoves DEF AttemptsLeft, JobsMove
  <2>3. deletionJob' # Null => deletionJob'.attempts < MaxAttempts
    BY <1>2, <2>1, StepMoves DEF AttemptsLeft, JobsMove
  <2> QED BY <2>2, <2>3 DEF AttemptsLeft
<1> QED BY <1>1, <1>3, InvHolds, PTL DEF Spec
=============================================================================
