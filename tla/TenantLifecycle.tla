--------------------------- MODULE TenantLifecycle ---------------------------
(***************************************************************************)
(* One tenant row through suspension, locking and scheduled deletion, with *)
(* the two delayed BullMQ jobs that end a lock and execute a deletion.     *)
(*                                                                         *)
(* A handler is a request, an admin request, a write of other columns      *)
(* (payment state, trial) or a worker that runs a job.  Each loads a copy  *)
(* of the row and later saves all of it: what other handlers saved in      *)
(* between is overwritten, and a row deleted in between is inserted again. *)
(* Time is counted in days.                                                *)
(*                                                                         *)
(* The requests of the tenant's users and the jobs load the row through    *)
(* TenantAwareRepository, which asks for it by a tenantId property that    *)
(* TenantEntity does not have: in this program that load always throws.    *)
(* TenantLoads says which outcomes a behaviour looks at; what holds with   *)
(* both holds of the program as it is and of one whose load works.         *)
(***************************************************************************)
EXTENDS Integers, FiniteSets

CONSTANTS
  Handlers,        \* requests and job runs in progress at the same time
  Null,            \* a null column, no job, no row
  Undef,           \* a property set to undefined, which save leaves out
  Grace,           \* days between the request of a deletion and the deletion (30)
  MaxAttempts,     \* attempts BullMQ gives a job (3)
  TenantLoads,     \* may a load through TenantAwareRepository find its tenant?
                   \* {FALSE} in this code
  MaxDay,          \* days looked at (bound)
  MaxOps,          \* requests (bound)
  MaxFaults        \* exceptions and crashes (bound)

ASSUME ConstantsAssumption ==
  /\ Grace \in Nat
  /\ MaxAttempts \in Nat \ {0}
  /\ TenantLoads \subseteq BOOLEAN
  /\ MaxDay \in Nat
  /\ MaxOps \in Nat
  /\ MaxFaults \in Nat
  /\ Null \notin Nat
  /\ Undef \notin Nat \cup {Null}

VARIABLES
  now,
  row,           \* the TenantEntity row, Null once it is deleted
  unlockJob,     \* the job with id unlock-<tenant>, or Null
  deletionJob,   \* the job with id deletion-<tenant>, or Null
  pc, op, copy,  \* per handler: step, operation, loaded and changed row
  requestedOn,   \* (history) days on which a deletion was requested
  executedOn,    \* (history) the day the deletion job deleted the row, or Null
  ops, faults    \* budgets spent

jobVars == <<unlockJob, deletionJob>>
history == <<requestedOn, executedOn>>
vars == <<now, row, unlockJob, deletionJob, pc, op, copy, requestedOn, executedOn,
          ops, faults>>

Status == {"active", "suspended", "locked", "pending", "deletion_scheduled"}
Date == Nat \cup {Null}

\* status, lockUntil and deletionScheduledAt: the columns this module is about.
Row == [status : Status, lockUntil : Date, scheduledAt : Date]
Copy == [status : Status, lockUntil : Date \cup {Undef}, scheduledAt : Date \cup {Undef}]

NewTenant == [status |-> "active", lockUntil |-> Null, scheduledAt |-> Null]

Job == [due : Nat, state : {"waiting", "active", "finished"}, attempts : Nat]

ASSUME NullAssumption == Null \notin Job \cup Row

\* Requests of the tenant's users (behind the guards), of administrators, and
\* writers that have no interest in the columns above.
Guarded == {"lock", "unlock", "schedule", "cancel", "update", "remove"}
Unguarded == {"suspend", "unsuspend", "edit"}
JobOps == {"autoUnlock", "execute"}

Init ==
  /\ now = 0
  /\ row = NewTenant
  /\ unlockJob = Null
  /\ deletionJob = Null
  /\ pc = [h \in Handlers |-> "idle"]
  /\ op = [h \in Handlers |-> "none"]
  /\ copy = [h \in Handlers |-> NewTenant]
  /\ requestedOn = {}
  /\ executedOn = Null
  /\ ops = 0
  /\ faults = 0

Return(h) ==
  /\ pc' = [pc EXCEPT ![h] = "idle"]
  /\ op' = [op EXCEPT ![h] = "none"]
  /\ copy' = [copy EXCEPT ![h] = NewTenant]

NextDay ==
  /\ now < MaxDay
  /\ now' = now + 1
  /\ UNCHANGED <<row, jobVars, pc, op, copy, history, ops, faults>>

-----------------------------------------------------------------------------
(* The queues.                                                             *)

NewJob(day) == [due |-> day, state |-> "waiting", attempts |-> 0]

\* Faulty variant: a job replaces one of the same id.
Added_Replaces(job, day) == NewJob(day)

\* add: as long as a job of that id is known, be it a finished one that is still
\* kept, another of the same id is ignored.
Added(job, day) == IF job = Null THEN NewJob(day) ELSE job

\* Faulty variant: a job that throws is tried again without end.
Retried_ForEver(job) == [job EXCEPT !.state = "waiting"]

\* One attempt of the job has thrown, or its worker died: it waits for the
\* next one, or has failed for good.
Retried(job) ==
  IF job.attempts + 1 < MaxAttempts
  THEN [due |-> job.due, state |-> "waiting", attempts |-> job.attempts + 1]
  ELSE [job EXCEPT !.state = "finished"]

Completed(job) == [job EXCEPT !.state = "finished"]

\* A worker takes a job that is due.
Take(h) ==
  /\ pc[h] = "idle"
  /\ \/ /\ unlockJob # Null /\ unlockJob.state = "waiting" /\ unlockJob.due <= now
        /\ unlockJob' = [unlockJob EXCEPT !.state = "active"]
        /\ op' = [op EXCEPT ![h] = "autoUnlock"]
        /\ UNCHANGED deletionJob
     \/ /\ deletionJob # Null /\ deletionJob.state = "waiting" /\ deletionJob.due <= now
        /\ deletionJob' = [deletionJob EXCEPT !.state = "active"]
        /\ op' = [op EXCEPT ![h] = "execute"]
        /\ UNCHANGED unlockJob
  /\ pc' = [pc EXCEPT ![h] = "load"]
  /\ UNCHANGED <<now, row, copy, history, ops, faults>>

\* Finished jobs are dropped some time later (removeOnComplete, removeOnFail).
Forget ==
  /\ \/ /\ unlockJob # Null /\ unlockJob.state = "finished"
        /\ unlockJob' = Null /\ UNCHANGED deletionJob
     \/ /\ deletionJob # Null /\ deletionJob.state = "finished"
        /\ deletionJob' = Null /\ UNCHANGED unlockJob
  /\ UNCHANGED <<now, row, pc, op, copy, history, ops, faults>>

\* The job that handler h runs, and its end.
JobOf(h) == IF op[h] = "autoUnlock" THEN unlockJob ELSE deletionJob

JobBecomes(h, job) ==
  IF op[h] = "autoUnlock"
  THEN unlockJob' = job /\ UNCHANGED deletionJob
  ELSE deletionJob' = job /\ UNCHANGED unlockJob

JobThrows(h) == JobBecomes(h, Retried(JobOf(h))) /\ Return(h)

JobCompletes(h) == JobBecomes(h, Completed(JobOf(h))) /\ Return(h)

-----------------------------------------------------------------------------
(* The operations.                                                         *)

\* TenantStatusGuard and TenantLockGuard, in front of every endpoint of
\* AwareTenantController, unlock included.
Admitted == row # Null /\ row.status \notin {"suspended", "locked"}

Begin(h, o) ==
  /\ pc[h] = "idle"
  /\ o \in Guarded => Admitted
  /\ ops < MaxOps
  /\ ops' = ops + 1
  /\ pc' = [pc EXCEPT ![h] = "load"]
  /\ op' = [op EXCEPT ![h] = o]
  /\ UNCHANGED <<now, row, jobVars, copy, history, faults>>

\* May the load of operation o find the row that is there?  The services of
\* administrators, trials and payments load it through the plain repository.
Finds(o) == IF o \in Unguarded THEN {TRUE} ELSE TenantLoads

\* The conditions under which the service method goes on after loading r.
Allowed(o, r) ==
  CASE o = "lock"       -> r.status # "locked"
    [] o = "unlock"     -> r.status = "locked"
    [] o = "autoUnlock" -> r.status = "locked"
    [] o = "schedule"   -> r.status # "deletion_scheduled"
    [] o = "cancel"     -> r.status = "deletion_scheduled"
    [] o = "execute"    -> /\ r.status = "deletion_scheduled"
                           /\ r.scheduledAt # Null => now - r.scheduledAt >= Grace
    [] OTHER            -> TRUE

\* The copies that may be saved.  A lock takes the end date of its request, an
\* update any status; "edit" stands for the writers of other columns.
Changed(o, r) ==
  CASE o = "lock"      -> {[r EXCEPT !.status = "locked", !.lockUntil = d] :
                             d \in 0 .. MaxDay \cup {Undef}}
    [] o \in {"unlock", "autoUnlock"} ->
                          {[r EXCEPT !.status = "active", !.lockUntil = Undef]}
    [] o = "schedule"  -> {[r EXCEPT !.status = "deletion_scheduled", !.scheduledAt = now]}
    [] o = "cancel"    -> {[r EXCEPT !.status = "active", !.scheduledAt = Undef]}
    [] o = "suspend"   -> {[r EXCEPT !.status = "suspended"]}
    [] o = "unsuspend" -> {[r EXCEPT !.status = "active"]}
    [] o = "update"    -> {[r EXCEPT !.status = s] : s \in Status}
    [] OTHER           -> {r}

GoesOn(o) == row # Null /\ Allowed(o, row)

Load(h) ==
  /\ pc[h] = "load"
  /\ op[h] \notin JobOps \cup {"remove"}
  /\ TRUE \in Finds(op[h])
  /\ GoesOn(op[h])
  /\ \E c \in Changed(op[h], row) : copy' = [copy EXCEPT ![h] = c]
  /\ pc' = [pc EXCEPT ![h] = "save"]
  /\ requestedOn' = IF op[h] = "schedule" THEN requestedOn \cup {now} ELSE requestedOn
  /\ UNCHANGED <<now, row, jobVars, op, executedOn, ops, faults>>

\* The load throws, or the row is gone or not in the state the operation needs: an
\* error response.
Refuse(h) ==
  /\ pc[h] = "load"
  /\ op[h] \notin JobOps \cup {"remove"}
  /\ FALSE \in Finds(op[h]) \/ ~GoesOn(op[h])
  /\ Return(h)
  /\ UNCHANGED <<now, row, jobVars, history, ops, faults>>

\* Faulty variant: undefined properties are written too.
Written_Copied(old, c) == c

\* save writes the defined columns of the copy, and inserts a row that is missing.
Written(old, c) ==
  LET kept(col) == IF old = Null THEN Null ELSE old[col]
  IN  [status      |-> c.status,
       lockUntil   |-> IF c.lockUntil = Undef THEN kept("lockUntil") ELSE c.lockUntil,
       scheduledAt |-> IF c.scheduledAt = Undef THEN kept("scheduledAt") ELSE c.scheduledAt]

\* After saving: a lock with an end date queues its job, and a scheduled or
\* cancelled deletion has an event whose listener works on the queue.
Save(h) ==
  /\ pc[h] = "save"
  /\ op[h] \notin JobOps
  /\ row' = Written(row, copy[h])
  /\ IF \/ op[h] = "lock" /\ copy[h].lockUntil # Undef /\ copy[h].lockUntil > now
        \/ op[h] \in {"schedule", "cancel"}
     THEN pc' = [pc EXCEPT ![h] = "queue"] /\ UNCHANGED <<op, copy>>
     ELSE Return(h)
  /\ UNCHANGED <<now, jobVars, history, ops, faults>>

\* Faulty variant: the deletion is queued without its delay.
QueueJob_Undelayed(h) ==
  /\ pc[h] = "queue"
  /\ op[h] = "schedule" /\ deletionJob' = Added(deletionJob, now) /\ UNCHANGED unlockJob
  /\ Return(h)
  /\ UNCHANGED <<now, row, history, ops, faults>>

\* unlockQueue.add, and the end of the listeners: deletionQueue.add with the
\* execution date of the request, and the removal of the job.  BullMQ does not
\* remove a job a worker is running.
QueueJob(h) ==
  /\ pc[h] = "queue"
  /\ \/ /\ op[h] = "lock"
        /\ unlockJob' = Added(unlockJob, copy[h].lockUntil)
        /\ UNCHANGED deletionJob
     \/ /\ op[h] = "schedule"
        /\ deletionJob' = Added(deletionJob, copy[h].scheduledAt + Grace)
        /\ UNCHANGED unlockJob
     \/ /\ op[h] = "cancel"
        /\ deletionJob' = IF deletionJob # Null /\ deletionJob.state = "active"
                          THEN deletionJob ELSE Null
        /\ UNCHANGED unlockJob
  /\ Return(h)
  /\ UNCHANGED <<now, row, history, ops, faults>>

\* DELETE /tenants/:id deletes the row in whatever state it is.
Remove(h) ==
  /\ pc[h] = "load"
  /\ op[h] = "remove"
  /\ row' = Null
  /\ Return(h)
  /\ UNCHANGED <<now, jobVars, history, ops, faults>>

-----------------------------------------------------------------------------
(* The jobs.                                                               *)

\* The load throws, for want of a tenant in the worker's context or of the property
\* it asks for, or finds the row; autoUnlock does nothing to a tenant that is not
\* locked, executeDeletion throws for one that is not to be deleted now.
LoadInJob(h) ==
  /\ pc[h] = "load"
  /\ op[h] \in JobOps
  /\ \E found \in Finds(op[h]) :
       IF ~found \/ row = Null \/ (op[h] = "execute" /\ ~GoesOn("execute"))
       THEN JobThrows(h)
       ELSE IF ~GoesOn(op[h])
       THEN JobCompletes(h)
       ELSE /\ \E c \in Changed(op[h], row) : copy' = [copy EXCEPT ![h] = c]
            /\ pc' = [pc EXCEPT ![h] = "save"]
            /\ UNCHANGED <<op, jobVars>>
  /\ UNCHANGED <<now, row, history, ops, faults>>

SaveUnlocked(h) ==
  /\ pc[h] = "save"
  /\ op[h] = "autoUnlock"
  /\ row' = Written(row, copy[h])
  /\ JobCompletes(h)
  /\ UNCHANGED <<now, history, ops, faults>>

\* The hard delete, after tenant.deleted has been emitted.
DeleteRow(h) ==
  /\ pc[h] = "save"
  /\ op[h] = "execute"
  /\ row' = Null
  /\ executedOn' = now
  /\ JobCompletes(h)
  /\ UNCHANGED <<now, requestedOn, ops, faults>>

\* A call throws, or the process ends: a job is tried again, the rest of a
\* request or of a listener is lost.
Fail(h) ==
  /\ pc[h] # "idle"
  /\ faults < MaxFaults
  /\ faults' = faults + 1
  /\ IF op[h] \in JobOps THEN JobThrows(h) ELSE (Return(h) /\ UNCHANGED jobVars)
  /\ UNCHANGED <<now, row, history, ops>>

-----------------------------------------------------------------------------
Continue(h) ==
  \/ Load(h) \/ Refuse(h) \/ Save(h) \/ QueueJob(h) \/ Remove(h)
  \/ LoadInJob(h) \/ SaveUnlocked(h) \/ DeleteRow(h)

Next ==
  \/ NextDay
  \/ Forget
  \/ \E h \in Handlers :
       \/ Take(h)
       \/ \E o \in Guarded \cup Unguarded : Begin(h, o)
       \/ Continue(h)
       \/ Fail(h)

Spec == Init /\ [][Next]_vars

\* A handler that has begun goes on, and a job that is due is taken (strongly: slots
\* are taken and fall free).
Fairness ==
  /\ \A h \in Handlers : WF_vars(Continue(h))
  /\ SF_vars(\E h \in Handlers : Take(h))

JobsSpec == Spec /\ Fairness

\* Moreover days pass.
FairSpec == JobsSpec /\ WF_vars(NextDay)

-----------------------------------------------------------------------------
(* Properties.                                                             *)

\* Every variable holds a value of the type its column, job or copy has.
TypeOK ==
  /\ now \in Nat
  /\ row \in Row \cup {Null}
  /\ unlockJob \in Job \cup {Null}
  /\ deletionJob \in Job \cup {Null}
  /\ pc \in [Handlers -> {"idle", "load", "save", "queue"}]
  /\ op \in [Handlers -> Guarded \cup Unguarded \cup JobOps \cup {"none"}]
  /\ copy \in [Handlers -> Copy]
  /\ requestedOn \subseteq Nat
  /\ executedOn \in Date
  /\ ops \in 0 .. MaxOps
  /\ faults \in 0 .. MaxFaults

\* The job deletes no tenant before the grace period after a request to delete
\* it is over, whatever other writers, cancelled requests, updates of the status
\* and jobs left behind have made of the row in the meantime.
DeletedAfterGrace ==
  executedOn # Null => \E d \in requestedOn : executedOn - d >= Grace

\* A job and the worker that runs it agree: exactly the active jobs are being
\* run, by one worker each, although requests replace and remove jobs meanwhile.
OneWorkerPerJob ==
  \A o \in JobOps :
    LET job == IF o = "autoUnlock" THEN unlockJob ELSE deletionJob
        runs == {h \in Handlers : op[h] = o}
    IN  /\ Cardinality(runs) <= 1
        /\ runs # {} <=> job # Null /\ job.state = "active"

\* A job that is due does not stay in the queue for ever, whatever its tenant has
\* become: it is run, fails for good, or is removed.
DueJobsEnd ==
  \A o \in JobOps :
    LET job == IF o = "autoUnlock" THEN unlockJob ELSE deletionJob
    IN  []<>(job = Null \/ job.state = "finished" \/ job.due > now)

\* README.md:554 and :642-647: a tenant whose user asks for its deletion, and asks for
\* nothing else, is deleted by the job after the grace period (unless that is over
\* only after the days looked at).
RequestedDeletionHappens ==
  \A h \in Handlers :
    (/\ op[h] = "schedule" /\ pc[h] = "load" /\ GoesOn("schedule")
     /\ ops = 1 /\ now + Grace <= MaxDay)
      ~> \/ row = Null
         \/ deletionJob # Null /\ deletionJob.due > MaxDay
         \/ ops > 1 \/ faults > 0
=============================================================================
