---------------------- MODULE PaymentEnforcement_proofs ----------------------
(***************************************************************************)
(* Proofs about PaymentEnforcement, for any numbers of tenants, handlers   *)
(* and days and for any two grace periods.                                 *)
(*                                                                         *)
(* GraceRespected is about the rows, but a row is always some copy that was*)
(* loaded earlier, so the invariant has to say the same of every copy: the *)
(* date on it goes back to a failed invoice, through the grace periods of  *)
(* the states the copy has been through since.                             *)
(***************************************************************************)
EXTENDS PaymentEnforcement, TLAPS

\* The row r of a tenant, looked at on `day', is backed by the days F on which
\* invoices of the tenant failed.
Backed(r, F, day) ==
  /\ r.changedAt \in Nat => r.changedAt <= day
  /\ r.payment = "past_due" => r.changedAt \in F
  /\ r.payment = "restricted" =>
       r.changedAt \in Nat /\ \E d \in F : r.changedAt >= d + RestrictAfter
  /\ r.payment = "locked" =>
       r.changedAt \in Nat /\ \E d \in F : r.changedAt >= d + RestrictAfter + LockAfter

RowsBacked == \A t \in Tenants : Backed(tenant[t], failedOn[t], today)

CopiesBacked ==
  \A h \in Handlers : pc[h] = "save" => /\ who[h] \in Tenants
                                        /\ Backed(row[h], failedOn[who[h]], today)

\* What a slot that handles an event knows of it.
DeliveriesOK ==
  \A h \in Handlers :
    /\ pc[h] \in {"load", "mark"} => op[h] \in {"failed", "paid"}
    /\ op[h] \in {"failed", "paid"} => ev[h] \in Event /\ who[h] \in Tenants

BatchBacked ==
  /\ now <= today
  /\ \A t \in Tenants : Backed(batch[t], failedOn[t], today)
  /\ \A t \in todo : batch[t].payment \in {"past_due", "restricted"}

Inv == TypeOK /\ RowsBacked /\ CopiesBacked /\ DeliveriesOK /\ BatchBacked
-----------------------------------------------------------------------------
(* Rows.                                                                   *)

\* A tenant that never owed anything needs no backing.
LEMMA NewTenantBacked ==
  ASSUME NEW F, NEW day
  PROVE  NewTenant \in Row /\ Backed(NewTenant, F, day)
BY ConstantsAssumption DEF NewTenant, Row, Backed, PaymentStatus

\* A row stays backed as days pass and more invoices fail.
LEMMA BackedGrows ==
  ASSUME NEW r \in Row, NEW F \in SUBSET Nat, NEW G \in SUBSET Nat, F \subseteq G,
         NEW day \in Nat, NEW later \in Nat, day <= later, Backed(r, F, day)
  PROVE  Backed(r, G, later)
<1>1. r.changedAt \in Nat => r.changedAt <= later
  BY DEF Backed
<1>2. r.payment = "past_due" => r.changedAt \in G
  BY DEF Backed
<1>3. r.payment = "restricted" =>
        r.changedAt \in Nat /\ \E d \in G : r.changedAt >= d + RestrictAfter
  BY DEF Backed
<1>4. r.payment = "locked" =>
        r.changedAt \in Nat /\ \E d \in G : r.changedAt >= d + RestrictAfter + LockAfter
  BY DEF Backed
<1> QED BY <1>1, <1>2, <1>3, <1>4 DEF Backed

\* The copy a webhook handler is about to save, dated the day it is handled.
LEMMA CalledBacked ==
  ASSUME NEW r \in Row, NEW F \in SUBSET Nat, NEW day \in Nat,
         NEW k \in {"failed", "paid"}, k = "failed" => day \in F
  PROVE  LET c == [r EXCEPT !.payment = Called(k), !.changedAt = day]
         IN  c \in Row /\ Backed(c, F, day)
<1> DEFINE c == [r EXCEPT !.payment = Called(k), !.changedAt = day]
<1>1. /\ c \in Row
      /\ c.changedAt = day
      /\ c.payment = Called(k)
  BY DEF Row, PaymentStatus, Called
<1>2. Backed(c, F, day)
  BY <1>1 DEF Backed, Called
<1> QED BY <1>1, <1>2

\* The operations on other columns leave the payment columns alone.
LEMMA EditedBacked ==
  ASSUME NEW r \in Row, NEW F \in SUBSET Nat, NEW day \in Nat, NEW o \in Edits,
         Backed(r, F, day)
  PROVE  Edited(o, r) \in Row /\ Backed(Edited(o, r), F, day)
<1>1. /\ Edited(o, r) \in Row
      /\ Edited(o, r).payment = r.payment
      /\ Edited(o, r).changedAt = r.changedAt
  BY DEF Edited, Edits, Row
<1> QED BY <1>1 DEF Backed

\* The copy the job saves: its state moved on only after the days of its stay,
\* counted from a date that already went back to a failed invoice.
LEMMA EscalatedBacked ==
  ASSUME NEW r \in Row, NEW F \in SUBSET Nat, NEW day \in Nat, NEW date \in Nat,
         date <= day, Backed(r, F, day), Due(r, date),
         r.payment \in {"past_due", "restricted"}
  PROVE  Escalated(r, date) \in Row /\ Backed(Escalated(r, date), F, day)
<1> DEFINE e == Escalated(r, date)
<1>1. r.changedAt \in Nat
  BY DEF Backed
<1>2. r.changedAt # Null
  BY <1>1, ConstantsAssumption
<1>3. /\ e \in Row
      /\ e.changedAt = date
      /\ e.payment = NextState(r.payment)
  BY <1>2 DEF Escalated, Row, NextState, PaymentStatus
<1>4. CASE r.payment = "past_due"
  <2>1. r.changedAt \in F /\ date >= r.changedAt + RestrictAfter
    BY <1>1, <1>2, <1>4, ConstantsAssumption DEF Backed, Due, Stay
  <2>2. e.payment = "restricted"
    BY <1>3, <1>4 DEF NextState
  <2> HIDE DEF e
  <2> QED BY <1>3, <2>1, <2>2 DEF Backed, e
<1>5. CASE r.payment = "restricted"
  <2>1. PICK d \in F : r.changedAt >= d + RestrictAfter
    BY <1>5 DEF Backed
  <2>2. date >= r.changedAt + LockAfter
    BY <1>1, <1>2, <1>5, ConstantsAssumption DEF Due, Stay
  <2>3. date >= d + RestrictAfter + LockAfter
    BY <1>1, <2>1, <2>2, ConstantsAssumption
  <2>4. e.payment = "locked"
    BY <1>3, <1>5 DEF NextState
  <2> HIDE DEF e
  <2> QED BY <1>3, <2>3, <2>4 DEF Backed, e
<1> QED BY <1>4, <1>5
-----------------------------------------------------------------------------
(* Initial states and steps.                                               *)

\* Every row and copy of an initial state is a new tenant's.
LEMMA InvInit == Init => Inv
<1> SUFFICES ASSUME Init PROVE Inv
  OBVIOUS
<1>1. TypeOK
  <2>1. /\ tenant \in [Tenants -> Row]
        /\ batch \in [Tenants -> Row]
        /\ row \in [Handlers -> Row]
    BY NewTenantBacked DEF Init
  <2>2. attempts \in 0 .. MaxAttempts - 1 /\ ranOn \in Nat \cup {-1}
    BY ConstantsAssumption DEF Init
  <2>3. failedOn \in [Tenants -> SUBSET Nat] /\ owing \in [Tenants -> BOOLEAN]
    BY DEF Init
  <2>4. /\ pc \in [Handlers -> {"idle", "load", "save", "mark"}]
        /\ op \in [Handlers -> Ops]
        /\ who \in [Handlers -> Tenants \cup {Null}]
        /\ ev \in [Handlers -> Event \cup {Null}]
    BY DEF Init, Ops
  <2>5. /\ today \in Nat /\ now \in Nat
        /\ sent \in 0 .. MaxInvoices /\ edits \in 0 .. MaxEdits /\ faults \in 0 .. MaxFaults
    BY ConstantsAssumption DEF Init
  <2>6. /\ inbox \subseteq Event /\ processed \subseteq Event
        /\ running \in BOOLEAN /\ todo \subseteq Tenants
    BY DEF Init
  <2> QED BY <2>1, <2>2, <2>3, <2>4, <2>5, <2>6 DEF TypeOK
<1>2. RowsBacked /\ BatchBacked
  BY NewTenantBacked DEF Init, RowsBacked, BatchBacked
<1>3. CopiesBacked /\ DeliveriesOK
  BY DEF Init, CopiesBacked, DeliveriesOK
<1> QED BY <1>1, <1>2, <1>3 DEF Inv

\* A slot that is given back holds no copy that could be saved.
LEMMA ReturnOK ==
  ASSUME Inv, NEW h \in Handlers, Return(h), UNCHANGED <<failedOn, today>>
  PROVE  /\ pc' \in [Handlers -> {"idle", "load", "save", "mark"}]
         /\ op' \in [Handlers -> Ops]
         /\ who' \in [Handlers -> Tenants \cup {Null}]
         /\ ev' \in [Handlers -> Event \cup {Null}]
         /\ row' \in [Handlers -> Row]
         /\ CopiesBacked'
         /\ DeliveriesOK'
<1> USE DEF Inv, TypeOK
<1>1. /\ pc' \in [Handlers -> {"idle", "load", "save", "mark"}]
      /\ op' \in [Handlers -> Ops]
      /\ who' \in [Handlers -> Tenants \cup {Null}]
      /\ ev' \in [Handlers -> Event \cup {Null}]
      /\ row' \in [Handlers -> Row]
  BY NewTenantBacked DEF Return, Ops
<1>2. CopiesBacked'
  BY DEF Return, CopiesBacked
<1>3. DeliveriesOK'
  BY DEF Return, DeliveriesOK
<1> QED BY <1>1, <1>2, <1>3

\* A day passes: what was backed stays backed.
LEMMA NextDayStep == Inv /\ NextDay => Inv'
<1> SUFFICES ASSUME Inv, NextDay PROVE Inv'
  OBVIOUS
<1> USE DEF Inv, NextDay, handlerVars, jobVars
<1>1. TypeOK'
  BY DEF TypeOK
<1>2. RowsBacked'
  BY BackedGrows DEF TypeOK, RowsBacked
<1>3. CopiesBacked'
  BY BackedGrows DEF TypeOK, CopiesBacked
<1>4. DeliveriesOK'
  BY DEF DeliveriesOK
<1>5. BatchBacked'
  BY BackedGrows DEF TypeOK, BatchBacked
<1> QED BY <1>1, <1>2, <1>3, <1>4, <1>5

\* Stripe sends an event: no row or copy changes.
LEMMA SendInvoiceStep ==
  ASSUME NEW t \in Tenants, NEW k \in {"failed", "paid"}, Inv, SendInvoice(t, k)
  PROVE  Inv'
<1> USE DEF Inv, SendInvoice, handlerVars, jobVars
<1>1. TypeOK'
  BY ConstantsAssumption DEF TypeOK, Event
<1>2. RowsBacked' /\ CopiesBacked' /\ DeliveriesOK' /\ BatchBacked'
  BY DEF RowsBacked, CopiesBacked, DeliveriesOK, BatchBacked
<1> QED BY <1>1, <1>2

\* A delivery of an event already processed changes no row or copy.
LEMMA DuplicateStep ==
  ASSUME NEW e \in inbox, Inv, Duplicate(e)
  PROVE  Inv'
<1> USE DEF Inv, Duplicate, handlerVars, jobVars
<1>1. TypeOK'
  BY DEF TypeOK
<1>2. RowsBacked' /\ CopiesBacked' /\ DeliveriesOK' /\ BatchBacked'
  BY DEF RowsBacked, CopiesBacked, DeliveriesOK, BatchBacked
<1> QED BY <1>1, <1>2

\* A webhook handler starts on an event of some tenant.
LEMMA ReceiveStep ==
  ASSUME NEW h \in Handlers, NEW e \in inbox, Inv, Receive(h, e)
  PROVE  Inv'
<1> USE DEF Inv, Receive, jobVars
<1>1. e \in Event /\ e.tenant \in Tenants /\ e.type \in {"failed", "paid"}
  BY DEF TypeOK, Event
<1>2. TypeOK'
  BY <1>1 DEF TypeOK, Ops
<1>3. RowsBacked' /\ BatchBacked'
  BY DEF RowsBacked, BatchBacked
<1>4. CopiesBacked'
  BY DEF TypeOK, CopiesBacked
<1>5. DeliveriesOK'
  BY <1>1 DEF TypeOK, DeliveriesOK
<1> QED BY <1>2, <1>3, <1>4, <1>5

\* A webhook handler loads the tenant: a failed invoice is dated today, and so
\* is the copy that goes on to be saved.
LEMMA LoadTenantStep ==
  ASSUME NEW h \in Handlers, Inv, LoadTenant(h)
  PROVE  Inv'
<1> USE DEF Inv
<1> DEFINE t == who[h]
           c == [tenant[t] EXCEPT !.payment = Called(op[h]), !.changedAt = today]
<1>1. t \in Tenants /\ op[h] \in {"failed", "paid"}
  BY DEF LoadTenant, DeliveriesOK
<1>2. /\ failedOn' \in [Tenants -> SUBSET Nat]
      /\ \A u \in Tenants : failedOn[u] \subseteq failedOn'[u]
      /\ op[h] = "failed" => today \in failedOn'[t]
  BY <1>1 DEF LoadTenant, TypeOK
<1>3. c \in Row /\ Backed(c, failedOn'[t], today)
  BY <1>1, <1>2, CalledBacked DEF TypeOK
<1>4. /\ UNCHANGED <<today, tenant, inbox, processed, op, who, ev, sent, edits, faults>>
      /\ UNCHANGED jobVars
      /\ \/ row' = [row EXCEPT ![h] = c] /\ pc' = [pc EXCEPT ![h] = "save"]
         \/ UNCHANGED row /\ pc' = [pc EXCEPT ![h] = "mark"]
      /\ owing' \in [Tenants -> BOOLEAN]
  BY <1>1 DEF LoadTenant, TypeOK
<1> HIDE DEF c
<1>5. TypeOK'
  BY <1>2, <1>3, <1>4 DEF TypeOK, jobVars
<1>6. \A u \in Tenants : \A r \in Row :
        Backed(r, failedOn[u], today) => Backed(r, failedOn'[u], today)
  BY <1>2, BackedGrows DEF TypeOK
<1>7. RowsBacked'
  BY <1>4, <1>6 DEF TypeOK, RowsBacked
<1>8. CopiesBacked'
  <2> SUFFICES ASSUME NEW g \in Handlers, pc'[g] = "save"
               PROVE  who[g] \in Tenants /\ Backed(row'[g], failedOn'[who[g]], today)
    BY <1>4 DEF CopiesBacked
  <2>1. CASE g = h
    BY <1>1, <1>3, <1>4, <2>1 DEF TypeOK
  <2>2. CASE g # h
    BY <1>4, <1>6, <2>2 DEF TypeOK, CopiesBacked
  <2> QED BY <2>1, <2>2
<1>9. DeliveriesOK'
  BY <1>1, <1>4 DEF TypeOK, DeliveriesOK
<1>10. BatchBacked'
  BY <1>4, <1>6 DEF TypeOK, BatchBacked, jobVars
<1> QED BY <1>5, <1>7, <1>8, <1>9, <1>10

\* A webhook handler saves its copy, however old, over the row.
LEMMA SaveTenantStep ==
  ASSUME NEW h \in Handlers, Inv, SaveTenant(h)
  PROVE  Inv'
<1> USE DEF Inv, SaveTenant, jobVars
<1>1. who[h] \in Tenants /\ Backed(row[h], failedOn[who[h]], today)
  BY DEF CopiesBacked
<1>2. TypeOK'
  BY <1>1 DEF TypeOK
<1>3. RowsBacked'
  BY <1>1 DEF TypeOK, RowsBacked
<1>4. CopiesBacked'
  BY DEF TypeOK, CopiesBacked
<1>5. DeliveriesOK'
  BY DEF TypeOK, DeliveriesOK
<1>6. BatchBacked'
  BY DEF BatchBacked
<1> QED BY <1>2, <1>3, <1>4, <1>5, <1>6

\* An event that finds no row to change is only marked.
LEMMA IgnoreStep ==
  ASSUME NEW h \in Handlers, Inv, Ignore(h)
  PROVE  Inv'
<1> USE DEF Inv, Ignore, jobVars
<1>1. TypeOK'
  BY ConstantsAssumption DEF TypeOK
<1>2. RowsBacked' /\ BatchBacked'
  BY DEF RowsBacked, BatchBacked
<1>3. CopiesBacked'
  BY DEF TypeOK, CopiesBacked
<1>4. DeliveriesOK'
  BY DEF TypeOK, DeliveriesOK
<1> QED BY <1>1, <1>2, <1>3, <1>4

\* Marking an event gives the slot back.
LEMMA MarkStep ==
  ASSUME NEW h \in Handlers, Inv, Mark(h)
  PROVE  Inv'
<1> USE DEF Inv, Mark, jobVars
<1>1. ev[h] \in Event
  BY DEF DeliveriesOK
<1>2. TypeOK'
  BY <1>1, ReturnOK, ConstantsAssumption DEF TypeOK
<1>3. RowsBacked' /\ BatchBacked'
  BY DEF RowsBacked, BatchBacked
<1>4. CopiesBacked' /\ DeliveriesOK'
  BY ReturnOK
<1> QED BY <1>2, <1>3, <1>4

\* An operation on other columns loads the row.
LEMMA LoadEditStep ==
  ASSUME NEW h \in Handlers, NEW o \in Edits, NEW t \in Tenants, Inv, LoadEdit(h, o, t)
  PROVE  Inv'
<1> USE DEF Inv, LoadEdit, jobVars
<1>1. /\ Edited(o, tenant[t]) \in Row
      /\ Backed(Edited(o, tenant[t]), failedOn[t], today)
  BY EditedBacked DEF TypeOK, RowsBacked
<1>2. TypeOK'
  BY <1>1, ConstantsAssumption DEF TypeOK, Ops
<1>3. RowsBacked' /\ BatchBacked'
  BY DEF RowsBacked, BatchBacked
<1>4. CopiesBacked'
  BY <1>1 DEF TypeOK, CopiesBacked
<1>5. DeliveriesOK'
  BY DEF TypeOK, DeliveriesOK, Edits
<1> QED BY <1>2, <1>3, <1>4, <1>5

\* An operation on other columns saves its copy, however old, over the row.
LEMMA SaveEditStep ==
  ASSUME NEW h \in Handlers, Inv, SaveEdit(h)
  PROVE  Inv'
<1> USE DEF Inv, SaveEdit, jobVars
<1>1. who[h] \in Tenants /\ Backed(row[h], failedOn[who[h]], today)
  BY DEF CopiesBacked
<1>2. TypeOK'
  BY <1>1, ReturnOK DEF TypeOK
<1>3. RowsBacked'
  BY <1>1 DEF TypeOK, RowsBacked
<1>4. CopiesBacked' /\ DeliveriesOK'
  BY ReturnOK
<1>5. BatchBacked'
  BY DEF BatchBacked
<1> QED BY <1>2, <1>3, <1>4, <1>5

\* A handler that stops half way leaves every row alone.
LEMMA FailStep ==
  ASSUME NEW h \in Handlers, Inv, Fail(h)
  PROVE  Inv'
<1> USE DEF Inv, Fail, jobVars
<1>1. TypeOK'
  BY ReturnOK, ConstantsAssumption DEF TypeOK
<1>2. RowsBacked' /\ BatchBacked'
  BY DEF RowsBacked, BatchBacked
<1>3. CopiesBacked' /\ DeliveriesOK'
  BY ReturnOK
<1> QED BY <1>1, <1>2, <1>3

\* The job copies all rows, and keeps the overdue ones to look at.
LEMMA StartJobStep == Inv /\ StartJob => Inv'
<1> SUFFICES ASSUME Inv, StartJob PROVE Inv'
  OBVIOUS
<1> USE DEF Inv, StartJob, handlerVars
<1>1. TypeOK'
  BY DEF TypeOK
<1>2. RowsBacked' /\ CopiesBacked' /\ DeliveriesOK'
  BY DEF RowsBacked, CopiesBacked, DeliveriesOK
<1>3. BatchBacked'
  BY DEF TypeOK, RowsBacked, BatchBacked, Overdue
<1> QED BY <1>1, <1>2, <1>3

\* The job saves its copy of a tenant, moved on, over whatever the row is now.
LEMMA EscalateTenantStep ==
  ASSUME NEW t \in Tenants, Inv, EscalateTenant(t)
  PROVE  Inv'
<1> USE DEF Inv, EscalateTenant, handlerVars
<1>1. Due(batch[t], now) => /\ Escalated(batch[t], now) \in Row
                            /\ Backed(Escalated(batch[t], now), failedOn[t], today)
  BY EscalatedBacked DEF TypeOK, BatchBacked
<1>2. TypeOK'
  BY <1>1 DEF TypeOK
<1>3. RowsBacked'
  BY <1>1 DEF TypeOK, RowsBacked
<1>4. CopiesBacked' /\ DeliveriesOK'
  BY DEF CopiesBacked, DeliveriesOK
<1>5. BatchBacked'
  BY DEF BatchBacked
<1> QED BY <1>2, <1>3, <1>4, <1>5

\* A job that ends, well or not, drops its copies.
LEMMA EndJobStep == Inv /\ (FinishJob \/ JobFails) => Inv'
<1> SUFFICES ASSUME Inv, FinishJob \/ JobFails PROVE Inv'
  OBVIOUS
<1> USE DEF Inv, handlerVars
<1>1. /\ UNCHANGED <<today, now, tenant, inbox, processed, failedOn, owing, sent, edits>>
      /\ UNCHANGED handlerVars
      /\ batch' = [t \in Tenants |-> NewTenant]
      /\ todo' = {}
      /\ running' = FALSE
  BY DEF FinishJob, JobFails
<1>2. attempts' \in 0 .. MaxAttempts - 1 /\ ranOn' \in Nat \cup {-1} /\ faults' \in 0 .. MaxFaults
  BY ConstantsAssumption DEF FinishJob, JobFails, TypeOK
<1>3. TypeOK'
  BY <1>1, <1>2, NewTenantBacked DEF TypeOK
<1>4. RowsBacked' /\ CopiesBacked' /\ DeliveriesOK'
  BY <1>1 DEF RowsBacked, CopiesBacked, DeliveriesOK
<1>5. BatchBacked'
  BY <1>1, NewTenantBacked DEF BatchBacked
<1> QED BY <1>3, <1>4, <1>5

\* Every step of the system keeps the invariant.
LEMMA InvNext == Inv /\ [Next]_vars => Inv'
<1> SUFFICES ASSUME Inv, [Next]_vars PROVE Inv'
  OBVIOUS
<1>1. CASE NextDay
  BY <1>1, NextDayStep
<1>2. CASE \E t \in Tenants, k \in {"failed", "paid"} : SendInvoice(t, k)
  BY <1>2, SendInvoiceStep
<1>3. CASE \E e \in inbox : Duplicate(e)
  BY <1>3, DuplicateStep
<1>4. ASSUME NEW h \in Handlers, Webhook(h) PROVE Inv'
  BY <1>4, ReceiveStep, LoadTenantStep, SaveTenantStep, IgnoreStep, MarkStep DEF Webhook
<1>5. ASSUME NEW h \in Handlers, Edit(h) PROVE Inv'
  BY <1>5, LoadEditStep, SaveEditStep DEF Edit
<1>6. ASSUME NEW h \in Handlers, Fail(h) PROVE Inv'
  BY <1>6, FailStep
<1>7. CASE Job
  BY <1>7, StartJobStep, EscalateTenantStep, EndJobStep DEF Job
<1>8. CASE UNCHANGED vars
  BY <1>8 DEF vars, Inv, TypeOK, RowsBacked, CopiesBacked, DeliveriesOK, BatchBacked
<1> QED BY <1>1, <1>2, <1>3, <1>4, <1>5, <1>6, <1>7, <1>8 DEF Next

-----------------------------------------------------------------------------
(* Theorems.                                                               *)

\* Every reachable state satisfies the inductive invariant: every copy of a
\* tenant that some writer holds goes back to a failed invoice in time.
THEOREM Invariance == Spec => []Inv
BY InvInit, InvNext, PTL DEF Spec

\* Types: the payment columns, the events and the job's state keep theirs.
THEOREM TypeCorrect == Spec => []TypeOK
<1>1. Inv => TypeOK
  BY DEF Inv
<1> QED BY <1>1, Invariance, PTL

\* The escalation job and the webhooks never restrict or lock a tenant before
\* its grace period is over, whatever the order in which copies are saved.
THEOREM GraceIsRespected == Spec => []GraceRespected
<1>1. Inv => GraceRespected
  <2> SUFFICES ASSUME Inv, NEW t \in Tenants
               PROVE  /\ tenant[t].payment = "restricted" =>
                           \E d \in failedOn[t] : today - d >= RestrictAfter
                      /\ tenant[t].payment = "locked" =>
                           \E d \in failedOn[t] : today - d >= RestrictAfter + LockAfter
    BY DEF GraceRespected
  <2>1. /\ Backed(tenant[t], failedOn[t], today)
        /\ failedOn[t] \subseteq Nat
        /\ today \in Nat
    BY DEF Inv, TypeOK, RowsBacked
  <2>2. CASE tenant[t].payment = "restricted"
    BY <2>1, <2>2, ConstantsAssumption DEF Backed
  <2>3. CASE tenant[t].payment = "locked"
    BY <2>1, <2>3, ConstantsAssumption DEF Backed
  <2> QED BY <2>2, <2>3
<1> QED BY <1>1, Invariance, PTL
=============================================================================
