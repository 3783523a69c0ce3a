-------------------------- MODULE PaymentEnforcement --------------------------
(***************************************************************************)
(* The payment state of the tenants: ACTIVE, PAST_DUE, RESTRICTED, LOCKED. *)
(*                                                                         *)
(* Three kinds of writers share the tenant row, and each saves the whole   *)
(* copy it loaded: the Stripe webhooks for failed and for paid invoices,   *)
(* the escalation job, which loads all overdue tenants at once at 9 o'clock*)
(* and then saves them one by one, and the operations on other columns     *)
(* (suspend, unsuspend, the end of a trial).  Time is counted in days.     *)
(***************************************************************************)
EXTENDS Integers, FiniteSets

CONSTANTS
  Tenants,
  Handlers,       \* webhook deliveries and admin requests in progress
  RestrictAfter,  \* PAST_DUE_TO_RESTRICTED_MS, in days (7 in the code)
  LockAfter,      \* RESTRICTED_TO_LOCKED_MS, in days (14 in the code)
  Null,           \* a null column
  MaxAttempts,    \* attempts BullMQ gives a job (3 in the code)
  MaxDay,         \* days looked at (bound)
  MaxInvoices,    \* invoice events Stripe sends (bound)
  MaxEdits,       \* operations on the other columns (bound)
  MaxFaults       \* exceptions and crashes (bound)

ASSUME ConstantsAssumption ==
  /\ RestrictAfter \in Nat
  /\ LockAfter \in Nat
  /\ MaxAttempts \in Nat \ {0}
  /\ MaxDay \in Nat
  /\ MaxInvoices \in Nat
  /\ MaxEdits \in Nat
  /\ MaxFaults \in Nat
  /\ Null \notin Nat

VARIABLES
  today,
  tenant,                \* the TenantEntity rows
  inbox,                 \* invoice events not yet answered with a 2xx
  processed,             \* event ids EventIdempotencyService has marked
  pc, op, who, ev, row,  \* per handler: step, operation, tenant, event, copy
  running, now, todo, batch, attempts, ranOn,  \* the escalation job
  failedOn,              \* (history) days a failed invoice was handled
  owing,                 \* (history) the last invoice applied was a failed one
  sent, edits, faults    \* budgets spent

jobVars == <<running, now, todo, batch, attempts, ranOn>>
handlerVars == <<pc, op, who, ev, row>>
vars == <<today, tenant, inbox, processed, pc, op, who, ev, row, running, now, todo,
          batch, attempts, ranOn, failedOn, owing, sent, edits, faults>>

PaymentStatus == {"active", "past_due", "restricted", "locked"}

Row == [status    : {"active", "suspended"},
        payment   : PaymentStatus,
        changedAt : Nat \cup {Null}]

\* A tenant as AgnosticTenantService.create leaves it.
NewTenant == [status |-> "active", payment |-> "active", changedAt |-> Null]

Event == [tenant : Tenants, type : {"failed", "paid"}, n : Nat]

Edits == {"suspend", "unsuspend", "edit"}
Ops == Edits \cup {"failed", "paid", "none"}

Init ==
  /\ today = 0
  /\ tenant = [t \in Tenants |-> NewTenant]
  /\ inbox = {}
  /\ processed = {}
  /\ pc = [h \in Handlers |-> "idle"]
  /\ op = [h \in Handlers |-> "none"]
  /\ who = [h \in Handlers |-> Null]
  /\ ev = [h \in Handlers |-> Null]
  /\ row = [h \in Handlers |-> NewTenant]
  /\ running = FALSE
  /\ now = 0
  /\ todo = {}
  /\ batch = [t \in Tenants |-> NewTenant]
  /\ attempts = 0
  /\ ranOn = -1
  /\ failedOn = [t \in Tenants |-> {}]
  /\ owing = [t \in Tenants |-> FALSE]
  /\ sent = 0
  /\ edits = 0
  /\ faults = 0

\* The handler is done: its slot takes the next request.
Return(h) ==
  /\ pc' = [pc EXCEPT ![h] = "idle"]
  /\ op' = [op EXCEPT ![h] = "none"]
  /\ who' = [who EXCEPT ![h] = Null]
  /\ ev' = [ev EXCEPT ![h] = Null]
  /\ row' = [row EXCEPT ![h] = NewTenant]

-----------------------------------------------------------------------------
(* Time and Stripe.                                                        *)

NextDay ==
  /\ today < MaxDay
  /\ today' = today + 1
  /\ UNCHANGED <<tenant, inbox, processed, handlerVars, jobVars, failedOn, owing,
                 sent, edits, faults>>

\* Stripe reports an invoice of t as paid or as failed.  A failed invoice is
\* retried and reported again for as long as it stays unpaid.
SendInvoice(t, k) ==
  /\ sent < MaxInvoices
  /\ sent' = sent + 1
  /\ inbox' = inbox \cup {[tenant |-> t, type |-> k, n |-> sent]}
  /\ UNCHANGED <<today, tenant, processed, handlerVars, jobVars, failedOn, owing,
                 edits, faults>>

-----------------------------------------------------------------------------
(* The webhooks.                                                           *)

Receive(h, e) ==
  /\ pc[h] = "idle"
  /\ e \in inbox
  /\ e \notin processed
  /\ pc' = [pc EXCEPT ![h] = "load"]
  /\ op' = [op EXCEPT ![h] = e.type]
  /\ who' = [who EXCEPT ![h] = e.tenant]
  /\ ev' = [ev EXCEPT ![h] = e]
  /\ UNCHANGED <<today, tenant, inbox, processed, row, jobVars, failedOn, owing,
                 sent, edits, faults>>

Duplicate(e) ==
  /\ e \in inbox
  /\ e \in processed
  /\ inbox' = inbox \ {e}
  /\ UNCHANGED <<today, tenant, processed, handlerVars, jobVars, failedOn, owing,
                 sent, edits, faults>>

\* The state an invoice event calls for, whatever the state is now.
Called(type) == IF type = "failed" THEN "past_due" ELSE "active"

\* The handler loads the tenant and, unless the payment status already is the
\* one called for, dates the change and goes on to save its copy.
LoadTenant(h) ==
  LET t == who[h]
      p == Called(op[h])
  IN  /\ pc[h] = "load"
      /\ IF tenant[t].payment # p
         THEN /\ row' = [row EXCEPT ![h] = [tenant[t] EXCEPT !.payment = p, !.changedAt = today]]
              /\ pc' = [pc EXCEPT ![h] = "save"]
              /\ UNCHANGED owing
         ELSE /\ pc' = [pc EXCEPT ![h] = "mark"]
              /\ owing' = [owing EXCEPT ![t] = (op[h] = "failed")]
              /\ UNCHANGED row
      /\ failedOn' = IF op[h] = "failed" THEN [failedOn EXCEPT ![t] = @ \cup {today}]
                                         ELSE failedOn
      /\ UNCHANGED <<today, tenant, inbox, processed, op, who, ev, jobVars, sent,
                     edits, faults>>

SaveTenant(h) ==
  /\ pc[h] = "save"
  /\ op[h] \in {"failed", "paid"}
  /\ tenant' = [tenant EXCEPT ![who[h]] = row[h]]
  /\ owing' = [owing EXCEPT ![who[h]] = (op[h] = "failed")]
  /\ pc' = [pc EXCEPT ![h] = "mark"]
  /\ UNCHANGED <<today, inbox, processed, op, who, ev, row, jobVars, failedOn, sent,
                 edits, faults>>

\* No billing row has the invoice's subscription or customer, or the tenant
\* cannot be loaded or saved: it is logged, and the event counts as processed.
Ignore(h) ==
  /\ pc[h] \in {"load", "save"}
  /\ op[h] \in {"failed", "paid"}
  /\ faults < MaxFaults
  /\ faults' = faults + 1
  /\ pc' = [pc EXCEPT ![h] = "mark"]
  /\ UNCHANGED <<today, tenant, inbox, processed, op, who, ev, row, jobVars,
                 failedOn, owing, sent, edits>>

Mark(h) ==
  /\ pc[h] = "mark"
  /\ processed' = processed \cup {ev[h]}
  /\ \/ inbox' = inbox \ {ev[h]} /\ UNCHANGED faults
     \/ faults < MaxFaults /\ faults' = faults + 1 /\ UNCHANGED inbox
  /\ Return(h)
  /\ UNCHANGED <<today, tenant, jobVars, failedOn, owing, sent, edits>>

-----------------------------------------------------------------------------
(* Operations on other columns of the row.                                 *)

\* The copy they save: suspend and unsuspend set the status, the others
\* (ending a trial) leave all of the columns modelled here as they loaded them.
Edited(o, r) ==
  CASE o = "suspend"   -> [r EXCEPT !.status = "suspended"]
    [] o = "unsuspend" -> [r EXCEPT !.status = "active"]
    [] o = "edit"      -> r

LoadEdit(h, o, t) ==
  /\ pc[h] = "idle"
  /\ edits < MaxEdits
  /\ edits' = edits + 1
  /\ pc' = [pc EXCEPT ![h] = "save"]
  /\ op' = [op EXCEPT ![h] = o]
  /\ who' = [who EXCEPT ![h] = t]
  /\ row' = [row EXCEPT ![h] = Edited(o, tenant[t])]
  /\ UNCHANGED <<today, tenant, inbox, processed, ev, jobVars, failedOn, owing, sent,
                 faults>>

SaveEdit(h) ==
  /\ pc[h] = "save"
  /\ op[h] \in Edits
  /\ tenant' = [tenant EXCEPT ![who[h]] = row[h]]
  /\ Return(h)
  /\ UNCHANGED <<today, inbox, processed, jobVars, failedOn, owing, sent, edits,
                 faults>>

\* The process ends, or the request does, before it is done.
Fail(h) ==
  /\ pc[h] # "idle"
  /\ faults < MaxFaults
  /\ faults' = faults + 1
  /\ Return(h)
  /\ UNCHANGED <<today, tenant, inbox, processed, jobVars, failedOn, owing, sent,
                 edits>>

-----------------------------------------------------------------------------
(* The escalation job.                                                     *)

\* Faulty variant: only tenants that are past due are looked at.
Overdue_PastDueOnly(r) == r.status = "active" /\ r.payment = "past_due"

Overdue(r) == r.status = "active" /\ r.payment \in {"past_due", "restricted"}

\* The days a tenant stays in its state before it is moved on.
Stay(p) == IF p = "past_due" THEN RestrictAfter ELSE LockAfter

\* Faulty variant: the last state is taken from the tenant's other status.
NextState_Suspends(p) == IF p = "past_due" THEN "restricted" ELSE "suspended"

NextState(p) == IF p = "past_due" THEN "restricted" ELSE "locked"

\* A copy without a date gets one; one that has stayed long enough moves on.
Due(r, day) == r.changedAt = Null \/ day - r.changedAt >= Stay(r.payment)

\* Faulty variant: the change of state is not dated.
Escalated_Undated(r, day) ==
  IF r.changedAt = Null THEN [r EXCEPT !.changedAt = day]
  ELSE [r EXCEPT !.payment = NextState(@)]

Escalated(r, day) ==
  IF r.changedAt = Null THEN [r EXCEPT !.changedAt = day]
  ELSE [r EXCEPT !.payment = NextState(@), !.changedAt = day]

StartJob ==
  /\ ~running
  /\ ranOn < today
  /\ running' = TRUE
  /\ now' = today
  /\ batch' = tenant
  /\ todo' = {t \in Tenants : Overdue(tenant[t])}
  /\ UNCHANGED <<today, tenant, inbox, processed, handlerVars, attempts, ranOn,
                 failedOn, owing, sent, edits, faults>>

\* One turn of the loop: the copy is tested, and saved if it is due.
EscalateTenant(t) ==
  /\ running
  /\ t \in todo
  /\ todo' = todo \ {t}
  /\ tenant' = IF Due(batch[t], now)
               THEN [tenant EXCEPT ![t] = Escalated(batch[t], now)] ELSE tenant
  /\ UNCHANGED <<today, inbox, processed, handlerVars, running, now, batch, attempts,
                 ranOn, failedOn, owing, sent, edits, faults>>

FinishJob ==
  /\ running
  /\ todo = {}
  /\ running' = FALSE
  /\ batch' = [t \in Tenants |-> NewTenant]
  /\ attempts' = 0
  /\ ranOn' = now
  /\ UNCHANGED <<today, tenant, inbox, processed, handlerVars, now, todo, failedOn,
                 owing, sent, edits, faults>>

\* A save throws: the rest of the batch is dropped.  BullMQ starts the job
\* again, from the query, until its attempts are used up.
JobFails ==
  /\ running
  /\ faults < MaxFaults
  /\ faults' = faults + 1
  /\ running' = FALSE
  /\ todo' = {}
  /\ batch' = [t \in Tenants |-> NewTenant]
  /\ IF attempts + 1 < MaxAttempts
     THEN attempts' = attempts + 1 /\ UNCHANGED ranOn
     ELSE attempts' = 0 /\ ranOn' = now
  /\ UNCHANGED <<today, tenant, inbox, processed, handlerVars, now, failedOn, owing, sent,
                 edits>>

-----------------------------------------------------------------------------
Webhook(h) ==
  \/ \E e \in inbox : Receive(h, e)
  \/ LoadTenant(h)
  \/ SaveTenant(h)
  \/ Ignore(h)
  \/ Mark(h)

Edit(h) ==
  \/ \E o \in Edits, t \in Tenants : LoadEdit(h, o, t)
  \/ SaveEdit(h)

Job == StartJob \/ (\E t \in Tenants : EscalateTenant(t)) \/ FinishJob \/ JobFails

Next ==
  \/ NextDay
  \/ \E t \in Tenants, k \in {"failed", "paid"} : SendInvoice(t, k)
  \/ \E e \in inbox : Duplicate(e)
  \/ \E h \in Handlers : Webhook(h) \/ Edit(h) \/ Fail(h)
  \/ Job

Spec == Init /\ [][Next]_vars

\* The worker runs the job, a handler that has begun goes on, and Stripe
\* repeats an event until it is answered (strongly: a delivery that finds every
\* slot taken is repeated, and slots fall free).
Fairness ==
  /\ WF_vars(StartJob)
  /\ WF_vars((\E t \in Tenants : EscalateTenant(t)) \/ FinishJob)
  /\ \A h \in Handlers : WF_vars(LoadTenant(h) \/ SaveTenant(h) \/ Mark(h) \/ SaveEdit(h))
  /\ SF_vars(\E e \in inbox : Duplicate(e) \/ \E h \in Handlers : Receive(h, e))

FairSpec == Spec /\ Fairness /\ WF_vars(NextDay)

-----------------------------------------------------------------------------
(* Properties.                                                             *)

\* Every variable holds a value of the type its column or message has.
TypeOK ==
  /\ today \in Nat
  /\ tenant \in [Tenants -> Row]
  /\ inbox \subseteq Event
  /\ processed \subseteq Event
  /\ pc \in [Handlers -> {"idle", "load", "save", "mark"}]
  /\ op \in [Handlers -> Ops]
  /\ who \in [Handlers -> Tenants \cup {Null}]
  /\ ev \in [Handlers -> Event \cup {Null}]
  /\ row \in [Handlers -> Row]
  /\ running \in BOOLEAN
  /\ now \in Nat
  /\ todo \subseteq Tenants
  /\ batch \in [Tenants -> Row]
  /\ attempts \in 0 .. MaxAttempts - 1
  /\ ranOn \in Nat \cup {-1}
  /\ failedOn \in [Tenants -> SUBSET Nat]
  /\ owing \in [Tenants -> BOOLEAN]
  /\ sent \in 0 .. MaxInvoices
  /\ edits \in 0 .. MaxEdits
  /\ faults \in 0 .. MaxFaults

\* No tenant is restricted, let alone locked, before its grace period is over:
\* however the job, the webhooks and the other writers overwrite each other,
\* a restricted tenant had an invoice fail RestrictAfter days ago or earlier,
\* and a locked one RestrictAfter + LockAfter days ago or earlier.
GraceRespected ==
  \A t \in Tenants :
    /\ tenant[t].payment = "restricted" =>
         \E d \in failedOn[t] : today - d >= RestrictAfter
    /\ tenant[t].payment = "locked" =>
         \E d \in failedOn[t] : today - d >= RestrictAfter + LockAfter

\* A tenant that stays unpaid and is not suspended is locked in the end, though
\* writers overtake each other and the job may fail and be retried.
UnpaidIsLocked ==
  \A t \in Tenants :
    <>[](tenant[t].status = "active" /\ tenant[t].payment # "active")
      => <>(tenant[t].payment = "locked")

Rank(p) == CASE p = "active" -> 0 [] p = "past_due" -> 1
             [] p = "restricted" -> 2 [] p = "locked" -> 3

\* docs/specs/microservices-architecture.md:412-428: from PAST_DUE, RESTRICTED
\* and LOCKED an account only moves on, or back to ACTIVE by a payment.
OnlyPaymentRelieves ==
  [][\A t \in Tenants :
       \/ Rank(tenant'[t].payment) >= Rank(tenant[t].payment)
       \/ tenant'[t].payment = "active"]_vars

\* docs/specs/microservices-architecture.md:1117: an account is locked only
\* while it is unpaid.
LockedOnlyIfUnpaid == \A t \in Tenants : tenant[t].payment = "locked" => owing[t]
=============================================================================
