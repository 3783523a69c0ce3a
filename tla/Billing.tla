------------------------------- MODULE Billing -------------------------------
(***************************************************************************)
(* The billing row of one tenant and the Stripe subscriptions behind it.   *)
(*                                                                         *)
(* Every request, webhook and job of billing.service.ts loads the row,     *)
(* waits (for Stripe, for the database), and saves the copy it loaded with *)
(* its own columns changed.  There is no lock and no version column, so a  *)
(* save overwrites whatever was saved in between.  A handler is therefore  *)
(* a process of its own here: `row[h]' is the copy it loaded, and each of  *)
(* its awaits is a separate step.                                          *)
(***************************************************************************)
EXTENDS Integers, FiniteSets

CONSTANTS
  TopPlan,      \* plans are 0..TopPlan, in the order of planOrder; 0 is FREE
  Subs,         \* identifiers of Stripe checkout sessions / subscriptions
  Handlers,     \* requests, webhook deliveries and jobs in progress
  Null,         \* a null column
  MaxInvoices,  \* invoice events of one subscription in flight (bound)
  MaxOps,       \* checkouts opened and subscription requests made (bound)
  MaxFaults     \* requests cut short by an exception or a crash (bound)

ASSUME ConstantsAssumption ==
  /\ TopPlan \in Nat
  /\ MaxInvoices \in Nat \ {0}
  /\ MaxOps \in Nat
  /\ MaxFaults \in Nat
  /\ Null \notin Subs
  /\ Null \notin Nat
  /\ "none" \notin Subs
  /\ "past" \notin Subs

Plan == 0 .. TopPlan
Free == 0

VARIABLES
  billing,    \* the BillingEntity row
  stripe,     \* Stripe's own record of each subscription
  inbox,      \* Stripe events not yet answered with a 2xx
  processed,  \* event ids EventIdempotencyService has marked
  trialOver,  \* the tenant's trialEndsAt is set and not in the future
  pc, op, arg, row, ev,  \* per handler: where it is, what it runs, its copy
  applied,    \* (history) subscriptions whose checkout reached the row
  held,       \* (history) every plan Stripe had each subscription on
  ops, faults \* budgets spent

handlerVars == <<pc, op, arg, row, ev>>
vars == <<billing, stripe, inbox, processed, trialOver, pc, op, arg, row, ev,
          applied, held, ops, faults>>

-----------------------------------------------------------------------------
(* The state.                                                              *)

\* `eff' is cancellationEffectiveAt: unset, a past date, or (the identifier
\* s) the date at which the period of s that was current at the time ends.
Row == [plan      : Plan,
        status    : {"none", "active", "canceled"},
        sub       : Subs \cup {Null},
        pending   : Plan \cup {Null},
        requested : BOOLEAN,
        eff       : {"none", "past"} \cup Subs]

\* The row createBillingForTenant inserts when it finds none.
DefaultRow == [plan |-> Free, status |-> "none", sub |-> Null,
               pending |-> Null, requested |-> FALSE, eff |-> "none"]

\* Stripe's side: `bought' is the plan in the session's metadata, `sched'
\* the plan the next phase of the subscription schedule moves to.
Subscription == [state       : {"none", "session", "active", "canceled"},
                 bought      : Plan,
                 plan        : Plan,
                 cancelAtEnd : BOOLEAN,
                 sched       : Plan \cup {Null}]

NoSubscription == [state |-> "none", bought |-> Free, plan |-> Free,
                   cancelAtEnd |-> FALSE, sched |-> Null]

Event == [type : {"checkout", "paid", "deleted"},
          sub  : Subs,
          n    : 1 .. MaxInvoices]

UserOps == {"upgrade", "downgrade", "cancel", "reactivate", "undowngrade"}
Ops == UserOps \cup {"checkout", "paid", "deleted", "trial", "none"}

CheckoutEvent(s) == [type |-> "checkout", sub |-> s, n |-> 1]
DeletedEvent(s)  == [type |-> "deleted",  sub |-> s, n |-> 1]
PaidEvent(s, i)  == [type |-> "paid",     sub |-> s, n |-> i]

\* An invoice event no delivery of which is in progress stands for the next
\* one: its identifier is fresh to the idempotency service.
FreshInvoice(s, i) == /\ PaidEvent(s, i) \notin inbox
                      /\ \A h \in Handlers : ev[h] # PaidEvent(s, i)

\* The handler is done: its slot takes the next request.
Return(h) ==
  /\ pc' = [pc EXCEPT ![h] = "idle"]
  /\ op' = [op EXCEPT ![h] = "none"]
  /\ arg' = [arg EXCEPT ![h] = Free]
  /\ row' = [row EXCEPT ![h] = DefaultRow]
  /\ ev' = [ev EXCEPT ![h] = Null]

Init ==
  /\ billing = DefaultRow
  /\ stripe = [s \in Subs |-> NoSubscription]
  /\ inbox = {}
  /\ processed = {}
  /\ trialOver = FALSE
  /\ pc = [h \in Handlers |-> "idle"]
  /\ op = [h \in Handlers |-> "none"]
  /\ arg = [h \in Handlers |-> Free]
  /\ row = [h \in Handlers |-> DefaultRow]
  /\ ev = [h \in Handlers |-> Null]
  /\ applied = {}
  /\ held = [s \in Subs |-> {}]
  /\ ops = 0
  /\ faults = 0

-----------------------------------------------------------------------------
(* Stripe.                                                                 *)

\* createSubscriptionCheckoutSession: the plan goes into the session's metadata.
Session(p) == [NoSubscription EXCEPT !.state = "session", !.bought = p, !.plan = p]

\* subscriptionCheckout: a session is opened whatever the row says.
OpenCheckout(s, p) ==
  /\ ops < MaxOps
  /\ stripe[s].state = "none"
  /\ stripe' = [stripe EXCEPT ![s] = Session(p)]
  /\ ops' = ops + 1
  /\ UNCHANGED <<billing, inbox, processed, trialOver, handlerVars, applied, held, faults>>

\* The customer pays: the subscription starts and its first invoice is paid.
CompleteCheckout(s) ==
  /\ stripe[s].state = "session"
  /\ stripe' = [stripe EXCEPT ![s].state = "active"]
  /\ held' = [held EXCEPT ![s] = @ \cup {stripe[s].plan}]
  /\ inbox' = inbox \cup {CheckoutEvent(s), PaidEvent(s, 1)}
  /\ UNCHANGED <<billing, processed, trialOver, handlerVars, applied, ops, faults>>

\* A date that was in the future is now past, in the row and in the copies.
Elapse(r, s) == IF r.eff = s THEN [r EXCEPT !.eff = "past"] ELSE r

ElapseAll(s) == /\ billing' = Elapse(billing, s)
                /\ row' = [h \in Handlers |-> Elapse(row[h], s)]

\* The period of s ends: Stripe cancels it if told to, and otherwise applies
\* the scheduled phase and takes the payment for the next period.  A period is
\* a month: by its end the invoices of the last one have been dealt with.
Expire(s) ==
  /\ stripe[s].state = "active"
  /\ stripe[s].cancelAtEnd
  /\ stripe' = [stripe EXCEPT ![s] = [@ EXCEPT !.state = "canceled", !.sched = Null]]
  /\ inbox' = inbox \cup {DeletedEvent(s)}
  /\ ElapseAll(s)
  /\ UNCHANGED <<processed, trialOver, pc, op, arg, ev, applied, held, ops, faults>>

Renew(s) ==
  /\ stripe[s].state = "active"
  /\ ~stripe[s].cancelAtEnd
  /\ \A i \in 1 .. MaxInvoices : FreshInvoice(s, i)
  /\ LET next == IF stripe[s].sched = Null THEN stripe[s].plan ELSE stripe[s].sched
     IN  /\ stripe' = [stripe EXCEPT ![s] = [@ EXCEPT !.plan = next, !.sched = Null]]
         /\ held' = [held EXCEPT ![s] = @ \cup {next}]
  /\ inbox' = inbox \cup {PaidEvent(s, 1)}
  /\ processed' = processed \ {PaidEvent(s, 1)}
  /\ ElapseAll(s)
  /\ UNCHANGED <<trialOver, pc, op, arg, ev, applied, ops, faults>>

\* Stripe drops a subscription on its own (dashboard, exhausted retries).
StripeCancels(s) ==
  /\ stripe[s].state = "active"
  /\ faults < MaxFaults
  /\ stripe' = [stripe EXCEPT ![s] = [@ EXCEPT !.state = "canceled", !.sched = Null]]
  /\ inbox' = inbox \cup {DeletedEvent(s)}
  /\ faults' = faults + 1
  /\ UNCHANGED <<billing, processed, trialOver, handlerVars, applied, held, ops>>

\* The end of the period a dropped subscription had paid for passes.
DatePasses(s) ==
  /\ stripe[s].state = "canceled"
  /\ billing.eff = s \/ \E h \in Handlers : row[h].eff = s
  /\ ElapseAll(s)
  /\ UNCHANGED <<stripe, inbox, processed, trialOver, pc, op, arg, ev, applied,
                 held, ops, faults>>

\* The trial's end date passes.
TrialEnds ==
  /\ ~trialOver
  /\ trialOver' = TRUE
  /\ UNCHANGED <<billing, stripe, inbox, processed, handlerVars, applied, held, ops, faults>>

-----------------------------------------------------------------------------
(* Subscription requests: load and check, call Stripe, save.               *)

CancellationPending(r) == r.requested /\ r.eff \in Subs

\* The checks each request makes on the row it loaded; p is the target plan.
Permitted(o, r, p) ==
  /\ r.sub # Null
  /\ o = "downgrade"   => p < r.plan /\ r.pending = Null
  /\ o = "cancel"      => r.status = "active" /\ ~CancellationPending(r)
  /\ o = "reactivate"  => CancellationPending(r)
  /\ o = "undowngrade" => r.pending # Null

\* What the request asks Stripe to do to the subscription u.
AtStripe(o, u, p) ==
  CASE o = "upgrade"     -> [u EXCEPT !.plan = p, !.cancelAtEnd = FALSE]
    [] o = "downgrade"   -> [u EXCEPT !.sched = p]
    [] o = "cancel"      -> [u EXCEPT !.sched = Null, !.cancelAtEnd = TRUE]
    [] o = "reactivate"  -> [u EXCEPT !.cancelAtEnd = FALSE]
    [] o = "undowngrade" -> [u EXCEPT !.sched = Null]

\* The columns the request then changes in its copy r.  The date Stripe
\* answers a cancellation with is the end of the current period.
Changed(o, r, p) ==
  CASE o = "upgrade"     -> [r EXCEPT !.plan = p, !.status = "active"]
    [] o = "downgrade"   -> [r EXCEPT !.pending = p]
    [] o = "cancel"      -> [r EXCEPT !.requested = TRUE, !.eff = r.sub]
    [] o = "reactivate"  -> [r EXCEPT !.requested = FALSE, !.eff = "none"]
    [] o = "undowngrade" -> [r EXCEPT !.pending = Null]

\* Only upgrade and downgrade carry a target plan, and it may be any plan.
Targets(o) == IF o \in {"upgrade", "downgrade"} THEN Plan ELSE {Free}

Start(h, o, p) ==
  /\ pc[h] = "idle"
  /\ ops < MaxOps
  /\ Permitted(o, billing, p)
  /\ pc' = [pc EXCEPT ![h] = "call"]
  /\ op' = [op EXCEPT ![h] = o]
  /\ arg' = [arg EXCEPT ![h] = p]
  /\ row' = [row EXCEPT ![h] = billing]
  /\ ops' = ops + 1
  /\ UNCHANGED <<billing, stripe, inbox, processed, trialOver, ev, applied, held,
                 faults>>

\* Stripe accepts: an upgrade is invoiced at once (always_invoice), and the
\* invoice is a new event.  A cancelled subscription takes no update.
StripeAccepts(h) ==
  LET s == row[h].sub
      u == AtStripe(op[h], stripe[s], arg[h])
  IN  /\ pc[h] = "call"
      /\ stripe[s].state = "active"
      /\ stripe' = [stripe EXCEPT ![s] = u]
      /\ held' = [held EXCEPT ![s] = @ \cup {u.plan}]
      /\ IF op[h] = "upgrade"
         THEN \E i \in 1 .. MaxInvoices :
                /\ FreshInvoice(s, i)
                /\ inbox' = inbox \cup {PaidEvent(s, i)}
                /\ processed' = processed \ {PaidEvent(s, i)}
         ELSE UNCHANGED <<inbox, processed>>
      /\ row' = [row EXCEPT ![h] = Changed(op[h], @, arg[h])]
      /\ pc' = [pc EXCEPT ![h] = "save"]
      /\ UNCHANGED <<billing, trialOver, op, arg, ev, applied, ops, faults>>

\* Faulty variant: the error is swallowed and the request goes on to save.
StripeRefuses_Swallowed(h) ==
  /\ pc[h] = "call"
  /\ row' = [row EXCEPT ![h] = Changed(op[h], @, arg[h])]
  /\ pc' = [pc EXCEPT ![h] = "save"]
  /\ UNCHANGED <<billing, stripe, inbox, processed, trialOver, op, arg, ev, applied,
                 held, ops, faults>>

\* Stripe refuses (a declined card, a cancelled subscription, an outage): the
\* request ends with an error.
StripeRefuses(h) ==
  /\ pc[h] = "call"
  /\ Return(h)
  /\ UNCHANGED <<billing, stripe, inbox, processed, trialOver, applied, held, ops,
                 faults>>

\* scheduleSubscriptionCancellation makes two calls: it releases the schedule,
\* and if the second one fails the schedule is not put back.
ReleasedOnly(h) ==
  /\ pc[h] = "call"
  /\ op[h] = "cancel"
  /\ stripe[row[h].sub].state = "active"
  /\ faults < MaxFaults
  /\ stripe' = [stripe EXCEPT ![row[h].sub].sched = Null]
  /\ faults' = faults + 1
  /\ Return(h)
  /\ UNCHANGED <<billing, inbox, processed, trialOver, applied, held, ops>>

SaveRequest(h) ==
  /\ pc[h] = "save"
  /\ op[h] \in UserOps
  /\ billing' = row[h]
  /\ Return(h)
  /\ UNCHANGED <<stripe, inbox, processed, trialOver, applied, held, ops, faults>>

-----------------------------------------------------------------------------
(* Stripe webhooks: handleStripeWebhook and its handlers.                  *)

\* Faulty variant: the event is marked before its handler runs.
Receive_MarksFirst(h, e) ==
  /\ pc[h] = "idle"
  /\ e \in inbox
  /\ e \notin processed
  /\ pc' = [pc EXCEPT ![h] = "load"]
  /\ op' = [op EXCEPT ![h] = e.type]
  /\ ev' = [ev EXCEPT ![h] = e]
  /\ processed' = processed \cup {e}
  /\ UNCHANGED <<billing, stripe, inbox, trialOver, arg, row, applied, held, ops, faults>>

\* isProcessed says no: the event's handler starts.
Receive(h, e) ==
  /\ pc[h] = "idle"
  /\ e \in inbox
  /\ e \notin processed
  /\ pc' = [pc EXCEPT ![h] = "load"]
  /\ op' = [op EXCEPT ![h] = e.type]
  /\ ev' = [ev EXCEPT ![h] = e]
  /\ UNCHANGED <<billing, stripe, inbox, processed, trialOver, arg, row,
                 applied, held, ops, faults>>

\* isProcessed says yes: the delivery is answered and nothing is done.
Duplicate(e) ==
  /\ e \in inbox
  /\ e \in processed
  /\ inbox' = inbox \ {e}
  /\ UNCHANGED <<billing, stripe, processed, trialOver, handlerVars, applied,
                 held, ops, faults>>

\* The checkout handler loads the tenant's row; the invoice and deletion
\* handlers look a row up by subscription, and have nothing to do without.
Load(h) ==
  /\ pc[h] = "load"
  /\ LET found == op[h] = "checkout" \/ billing.sub = ev[h].sub
         next  == IF ~found THEN "mark" ELSE IF op[h] = "paid" THEN "tx" ELSE "save"
     IN  /\ row' = [row EXCEPT ![h] = IF found THEN billing ELSE @]
         /\ pc' = [pc EXCEPT ![h] = next]
  /\ UNCHANGED <<billing, stripe, inbox, processed, trialOver, op, arg, ev,
                 applied, held, ops, faults>>

\* The row after a completed checkout of plan p by subscription s.  The
\* cancellation and downgrade columns are left as they were loaded.
CheckoutRow(r, s, p) ==
  IF p = Free THEN [r EXCEPT !.plan = Free, !.status = "none", !.sub = Null]
              ELSE [r EXCEPT !.plan = p, !.status = "active", !.sub = s]

\* A paid checkout also ends a running trial; a failure to is only logged.
SaveCheckout(h) ==
  LET s == ev[h].sub
      p == stripe[s].bought
  IN  /\ pc[h] = "save"
      /\ op[h] = "checkout"
      /\ billing' = CheckoutRow(row[h], s, p)
      /\ trialOver' \in IF p = Free THEN {trialOver} ELSE {trialOver, TRUE}
      /\ applied' = applied \cup {s}
      /\ pc' = [pc EXCEPT ![h] = "mark"]
      /\ UNCHANGED <<stripe, inbox, processed, op, arg, row, ev, held, ops, faults>>

\* An invoice with a payment intent first saves the copy it loaded, with the
\* transaction id; one without goes straight on.
SaveTransaction(h) ==
  /\ pc[h] = "tx"
  /\ billing' \in {row[h], billing}
  /\ pc' = [pc EXCEPT ![h] = "fetch"]
  /\ UNCHANGED <<stripe, inbox, processed, trialOver, op, arg, row, ev,
                 applied, held, ops, faults>>

\* Then it asks Stripe for the subscription's plan.
FetchPlan(h) ==
  LET p == stripe[ev[h].sub].plan
  IN  /\ pc[h] = "fetch"
      /\ arg' = [arg EXCEPT ![h] = p]
      /\ pc' = [pc EXCEPT ![h] = IF p # row[h].plan THEN "save" ELSE "mark"]
      /\ UNCHANGED <<billing, stripe, inbox, processed, trialOver, op, row, ev,
                     applied, held, ops, faults>>

\* Faulty variant: only the downgrade the row expects is taken over.
PaidRow_ExpectedOnly(r, p) ==
  IF r.pending = p THEN [r EXCEPT !.plan = p, !.pending = Null] ELSE r

\* The row with the plan p Stripe reports: a pending downgrade to just that
\* plan has happened.
PaidRow(r, p) == [r EXCEPT !.plan = p,
                           !.pending = IF r.pending = p THEN Null ELSE @]

SavePlan(h) ==
  /\ pc[h] = "save"
  /\ op[h] = "paid"
  /\ billing' = PaidRow(row[h], arg[h])
  /\ pc' = [pc EXCEPT ![h] = "mark"]
  /\ UNCHANGED <<stripe, inbox, processed, trialOver, op, arg, row, ev,
                 applied, held, ops, faults>>

\* Reconciling failed (Stripe or the database): the error is logged, the
\* event counts as processed.
ReconcileFails(h) ==
  /\ pc[h] = "fetch" \/ (pc[h] = "save" /\ op[h] = "paid")
  /\ faults < MaxFaults
  /\ faults' = faults + 1
  /\ pc' = [pc EXCEPT ![h] = "mark"]
  /\ UNCHANGED <<billing, stripe, inbox, processed, trialOver, op, arg, row, ev,
                 applied, held, ops>>

\* Faulty variants: the subscription id survives; the plan is emptied with it.
DeletedRow_KeepsSub(r) == [r EXCEPT !.status = "canceled",
                                    !.eff = IF @ = "none" THEN "past" ELSE @]

DeletedRow_NullPlan(r) == [DeletedRow_KeepsSub(r) EXCEPT !.sub = Null, !.plan = Null]

DeletedRow(r) == [r EXCEPT !.status = "canceled",
                           !.eff = IF @ = "none" THEN "past" ELSE @,
                           !.sub = Null]

SaveDeleted(h) ==
  /\ pc[h] = "save"
  /\ op[h] = "deleted"
  /\ billing' = DeletedRow(row[h])
  /\ pc' = [pc EXCEPT ![h] = "mark"]
  /\ UNCHANGED <<stripe, inbox, processed, trialOver, op, arg, row, ev,
                 applied, held, ops, faults>>

\* markProcessed, then the 2xx answer, which may be lost on its way to Stripe.
Mark(h) ==
  /\ pc[h] = "mark"
  /\ processed' = processed \cup {ev[h]}
  /\ \/ inbox' = inbox \ {ev[h]} /\ UNCHANGED faults
     \/ faults < MaxFaults /\ faults' = faults + 1 /\ UNCHANGED inbox
  /\ Return(h)
  /\ UNCHANGED <<billing, stripe, trialOver, applied, held, ops>>

-----------------------------------------------------------------------------
(* The daily trial job, and failures.                                      *)

\* handleTrialExpired: an expired trial without an active subscription whose
\* row is not already on the free plan.  trialEndsAt is "cleared" with an
\* undefined property, which the ORM does not save, so it applies every day.
StartTrialExpiry(h) ==
  /\ pc[h] = "idle"
  /\ trialOver
  /\ billing.status # "active"
  /\ billing.plan # Free \/ billing.status # "none"
  /\ pc' = [pc EXCEPT ![h] = "save"]
  /\ op' = [op EXCEPT ![h] = "trial"]
  /\ row' = [row EXCEPT ![h] = billing]
  /\ UNCHANGED <<billing, stripe, inbox, processed, trialOver, arg, ev, applied,
                 held, ops, faults>>

SaveTrialExpiry(h) ==
  /\ pc[h] = "save"
  /\ op[h] = "trial"
  /\ billing' = DefaultRow
  /\ Return(h)
  /\ UNCHANGED <<stripe, inbox, processed, trialOver, applied, held, ops, faults>>

\* An exception that is not caught, or the end of the process: the handler
\* stops where it is, and an event it was handling stays undelivered.
Fail(h) ==
  /\ pc[h] # "idle"
  /\ faults < MaxFaults
  /\ faults' = faults + 1
  /\ Return(h)
  /\ UNCHANGED <<billing, stripe, inbox, processed, trialOver, applied, held, ops>>

-----------------------------------------------------------------------------
Request(h) ==
  \/ \E o \in UserOps : \E p \in Targets(o) : Start(h, o, p)
  \/ StripeAccepts(h)
  \/ StripeRefuses(h)
  \/ ReleasedOnly(h)
  \/ SaveRequest(h)

Webhook(h) ==
  \/ \E e \in inbox : Receive(h, e)
  \/ Load(h)
  \/ SaveCheckout(h)
  \/ SaveTransaction(h)
  \/ FetchPlan(h)
  \/ SavePlan(h)
  \/ ReconcileFails(h)
  \/ SaveDeleted(h)
  \/ Mark(h)

TrialJob(h) == StartTrialExpiry(h) \/ SaveTrialExpiry(h)

Stripe ==
  \/ \E s \in Subs, p \in Plan : OpenCheckout(s, p)
  \/ \E s \in Subs : \/ CompleteCheckout(s)
                     \/ Expire(s)
                     \/ Renew(s)
                     \/ StripeCancels(s)
                     \/ DatePasses(s)
  \/ \E e \in inbox : Duplicate(e)

Next ==
  \/ Stripe
  \/ TrialEnds
  \/ \E h \in Handlers : Request(h) \/ Webhook(h) \/ TrialJob(h) \/ Fail(h)

Spec == Init /\ [][Next]_vars

\* The steps that finish what a handler has begun.
Progress(h) ==
  \/ StripeAccepts(h) \/ StripeRefuses(h) \/ SaveRequest(h)
  \/ Load(h) \/ SaveCheckout(h) \/ SaveTransaction(h) \/ FetchPlan(h)
  \/ SavePlan(h) \/ SaveDeleted(h) \/ Mark(h) \/ SaveTrialExpiry(h)

PeriodEnds(s) == Expire(s) \/ Renew(s)

Delivery(e) == Duplicate(e) \/ \E h \in Handlers : Receive(h, e)

\* A handler that runs goes on running, periods end, and Stripe goes on
\* delivering an event until it is answered (strongly: a delivery that finds
\* every slot taken is repeated, and slots fall free).
Fairness ==
  /\ \A h \in Handlers : WF_vars(Progress(h))
  /\ \A s \in Subs : WF_vars(PeriodEnds(s))
  /\ \A e \in Event : SF_vars(Delivery(e))

FairSpec == Spec /\ Fairness

-----------------------------------------------------------------------------
(* Properties.                                                             *)

\* Every variable holds a value of the type its column or message has.
TypeOK ==
  /\ billing \in Row
  /\ stripe \in [Subs -> Subscription]
  /\ inbox \subseteq Event
  /\ processed \subseteq Event
  /\ trialOver \in BOOLEAN
  /\ pc \in [Handlers -> {"idle", "call", "load", "tx", "fetch", "save", "mark"}]
  /\ op \in [Handlers -> Ops]
  /\ arg \in [Handlers -> Plan]
  /\ row \in [Handlers -> Row]
  /\ ev \in [Handlers -> Event \cup {Null}]
  /\ applied \subseteq Subs
  /\ held \in [Subs -> SUBSET Plan]
  /\ ops \in 0 .. MaxOps
  /\ faults \in 0 .. MaxFaults

\* However stale the copies that are saved over each other, the row names a
\* Stripe subscription exactly when its status is ACTIVE: the requests test
\* the one and the guards and the trial job the other.
RowCoherent == (billing.sub # Null) <=> (billing.status = "active")

\* The plan a tenant enjoys through a subscription is one Stripe has charged
\* that subscription for: no interleaving of requests, webhooks and failures
\* pairs the plan of one subscription with another, or grants a plan whose
\* payment Stripe refused.
EntitledToPlan == \A s \in Subs : billing.sub = s => billing.plan \in held[s]

\* A checkout.session.completed that is marked processed was saved to the row
\* at some time: a crash or an exception half way leaves it to be redelivered.
CheckoutNeverLost ==
  \A s \in Subs : CheckoutEvent(s) \in processed => s \in applied

\* If a subscription stays on the row and stays active at Stripe, the plan of
\* the row becomes and remains the plan Stripe charges for, whichever webhooks
\* and requests overtook each other before.
PlanConverges ==
  \A s \in Subs :
    <>[](billing.sub = s /\ stripe[s].state = "active")
      => <>[](billing.plan = stripe[s].plan)

\* billing_scenarios.md:181-184, for a subscription that stays: once the period
\* has ended and the next invoice is paid, pendingDowngradePlan clears.
PendingDowngradeClears ==
  \A s \in Subs :
    <>[](billing.sub = s /\ stripe[s].state = "active")
      => []<>(billing.pending = Null)

\* billing_scenarios.md:120-124: a completed checkout makes the subscription
\* status ACTIVE and populates stripeSubscriptionId.  Stated for when all is
\* quiet, and s is the one paid subscription left to the tenant at Stripe.
CheckoutTakesEffect ==
  \A s \in Subs :
    /\ \A h \in Handlers : pc[h] = "idle"
    /\ inbox = {}
    /\ stripe[s].state = "active"
    /\ stripe[s].bought # Free
    /\ \A t \in Subs \ {s} : \/ stripe[t].state = "none"
                             \/ stripe[t].state = "canceled" /\ stripe[t].bought # Free
    => billing.sub = s
=============================================================================
