--------------------------- MODULE Billing_proofs ---------------------------
(***************************************************************************)
(* Proofs about Billing: whatever the plans, the subscriptions, the number *)
(* of handlers and the bounds, no interleaving of stale saves makes the    *)
(* billing row incoherent or grants a plan that was not paid for.          *)
(***************************************************************************)
EXTENDS Billing, TLAPS

\* What a row must satisfy on its own, hd being the plans of each subscription.
Coherent(r) == (r.sub # Null) <=> (r.status = "active")

Entitled(r, hd) == \A s \in Subs : r.sub = s => r.plan \in hd[s]

RowOK(r, hd) == Coherent(r) /\ Entitled(r, hd)

\* The row and every copy of it, however old.
RowsOK == RowOK(billing, held) /\ \A h \in Handlers : RowOK(row[h], held)

\* A subscription begins on the plan that was bought.
Begun(s) == stripe[s].state \in {"active", "canceled"}

StripeOK ==
  \A s \in Subs :
    /\ stripe[s].state = "session" => stripe[s].plan = stripe[s].bought
    /\ Begun(s) => stripe[s].bought \in held[s] /\ stripe[s].plan \in held[s]

WebhookOps == {"checkout", "paid", "deleted"}

\* Events are about subscriptions that have begun.
EventsOK == /\ \A e \in inbox : Begun(e.sub)
            /\ \A h \in Handlers : op[h] \in WebhookOps => Begun(ev[h].sub)

\* What a handler knows at each of its steps.
HandlerOK(h) ==
  /\ pc[h] = "call" => op[h] \in UserOps /\ row[h].sub # Null
  /\ pc[h] \in {"load", "mark"} => op[h] \in WebhookOps
  /\ pc[h] \in {"tx", "fetch"} => op[h] = "paid" /\ row[h].sub = ev[h].sub
  /\ pc[h] = "save" /\ op[h] = "paid" => /\ row[h].sub = ev[h].sub
                                         /\ arg[h] \in held[ev[h].sub]
  /\ op[h] \in WebhookOps => ev[h] \in Event /\ ev[h].type = op[h]

HandlersOK == \A h \in Handlers : HandlerOK(h)

\* A checkout that is marked, or about to be, has been saved.
MarksOK == /\ CheckoutNeverLost
           /\ \A h \in Handlers :
                pc[h] = "mark" /\ op[h] = "checkout" => ev[h].sub \in applied

\* The inductive invariant.
Inv == TypeOK /\ RowsOK /\ StripeOK /\ EventsOK /\ HandlersOK /\ MarksOK

-----------------------------------------------------------------------------
(* What each handler does to the row it loaded.                            *)

\* The row createBillingForTenant and the trial job write is a good one.
LEMMA DefaultRowOK ==
  ASSUME NEW hd
  PROVE  DefaultRow \in Row /\ RowOK(DefaultRow, hd)
BY ConstantsAssumption DEF DefaultRow, Row, RowOK, Coherent, Entitled, Plan, Free

\* The passing of a date touches neither the plan nor the subscription.
LEMMA ElapseOK ==
  ASSUME NEW r \in Row, NEW s \in Subs, NEW hd, RowOK(r, hd)
  PROVE  /\ Elapse(r, s) \in Row
         /\ RowOK(Elapse(r, s), hd)
         /\ Elapse(r, s).sub = r.sub
BY DEF Elapse, Row, RowOK, Coherent, Entitled

\* A request keeps the subscription, and only an upgrade sets the plan.
LEMMA ChangedOK ==
  ASSUME NEW o \in UserOps, NEW r \in Row, NEW p \in Plan, r.sub # Null, Coherent(r)
  PROVE  /\ Changed(o, r, p) \in Row
         /\ Coherent(Changed(o, r, p))
         /\ Changed(o, r, p).sub = r.sub
         /\ Changed(o, r, p).plan = IF o = "upgrade" THEN p ELSE r.plan
<1>1. CASE o = "upgrade"
  BY <1>1 DEF Changed, Row, Coherent
<1>2. CASE o = "downgrade"
  BY <1>2 DEF Changed, Row, Coherent
<1>3. CASE o = "cancel"
  BY <1>3 DEF Changed, Row, Coherent
<1>4. CASE o = "reactivate"
  BY <1>4 DEF Changed, Row, Coherent
<1>5. CASE o = "undowngrade"
  BY <1>5 DEF Changed, Row, Coherent
<1> QED
  BY <1>1, <1>2, <1>3, <1>4, <1>5 DEF UserOps

\* At Stripe only an upgrade changes the plan at once, and none of the
\* requests ends the subscription.
LEMMA AtStripeOK ==
  ASSUME NEW o \in UserOps, NEW u \in Subscription, NEW p \in Plan
  PROVE  /\ AtStripe(o, u, p) \in Subscription
         /\ AtStripe(o, u, p).state = u.state
         /\ AtStripe(o, u, p).bought = u.bought
         /\ AtStripe(o, u, p).plan = IF o = "upgrade" THEN p ELSE u.plan
<1>1. CASE o = "upgrade"
  BY <1>1 DEF AtStripe, Subscription
<1>2. CASE o = "downgrade"
  BY <1>2 DEF AtStripe, Subscription
<1>3. CASE o = "cancel"
  BY <1>3 DEF AtStripe, Subscription
<1>4. CASE o = "reactivate"
  BY <1>4 DEF AtStripe, Subscription
<1>5. CASE o = "undowngrade"
  BY <1>5 DEF AtStripe, Subscription
<1> QED
  BY <1>1, <1>2, <1>3, <1>4, <1>5 DEF UserOps

\* A completed checkout names the subscription together with its own plan.
LEMMA CheckoutRowOK ==
  ASSUME NEW r \in Row, NEW s \in Subs, NEW p \in Plan, NEW hd, p \in hd[s]
  PROVE  CheckoutRow(r, s, p) \in Row /\ RowOK(CheckoutRow(r, s, p), hd)
BY ConstantsAssumption DEF CheckoutRow, Row, RowOK, Coherent, Entitled

\* Reconciling replaces the plan by one Stripe has had the subscription on.
LEMMA PaidRowOK ==
  ASSUME NEW r \in Row, NEW p \in Plan, NEW hd, RowOK(r, hd), p \in hd[r.sub]
  PROVE  PaidRow(r, p) \in Row /\ RowOK(PaidRow(r, p), hd)
BY DEF PaidRow, Row, RowOK, Coherent, Entitled

\* The end of a subscription clears it and its ACTIVE status together.
LEMMA DeletedRowOK ==
  ASSUME NEW r \in Row, NEW hd
  PROVE  DeletedRow(r) \in Row /\ RowOK(DeletedRow(r), hd)
BY ConstantsAssumption DEF DeletedRow, Row, RowOK, Coherent, Entitled

\* What was earned stays earned when Stripe moves to further plans.
LEMMA HeldGrows ==
  ASSUME NEW r, NEW hd, NEW hd2, RowOK(r, hd), \A s \in Subs : hd[s] \subseteq hd2[s]
  PROVE  RowOK(r, hd2)
BY DEF RowOK, Entitled

-----------------------------------------------------------------------------
(* The inductive step, one lemma per action.                               *)

\* A handler that returns leaves its slot empty.
LEMMA ReturnOK ==
  ASSUME TypeOK, NEW h \in Handlers, Return(h)
  PROVE  /\ pc' \in [Handlers -> {"idle", "call", "load", "tx", "fetch", "save", "mark"}]
         /\ op' \in [Handlers -> Ops]
         /\ arg' \in [Handlers -> Plan]
         /\ row' \in [Handlers -> Row]
         /\ ev' \in [Handlers -> Event \cup {Null}]
<1>1. Free \in Plan /\ "none" \in Ops /\ DefaultRow \in Row
  BY ConstantsAssumption, DefaultRowOK DEF Free, Plan, Ops
<1> QED
  BY <1>1 DEF TypeOK, Return

\* A new session has not begun, so nothing depends on it yet.
LEMMA OpenCheckoutStep ==
  ASSUME Inv, NEW s \in Subs, NEW p \in Plan, OpenCheckout(s, p)
  PROVE  Inv'
<1>1. TypeOK'
  <2>1. Session(p) \in Subscription
    BY ConstantsAssumption DEF Session, NoSubscription, Subscription, Plan, Free
  <2>2. stripe' \in [Subs -> Subscription]
    BY <2>1 DEF OpenCheckout, Inv, TypeOK
  <2> QED
    BY ConstantsAssumption, <2>2 DEF OpenCheckout, Inv, TypeOK, handlerVars
<1>2. RowsOK'
  BY DEF OpenCheckout, handlerVars, Inv, RowsOK
<1>3. StripeOK'
  BY DEF OpenCheckout, Session, NoSubscription, Inv, TypeOK, StripeOK, Begun
<1>4. EventsOK'
  BY DEF OpenCheckout, handlerVars, Inv, EventsOK, Begun, CheckoutEvent, PaidEvent, DeletedEvent
<1>5. HandlersOK'
  BY DEF OpenCheckout, handlerVars, Inv, HandlersOK, HandlerOK
<1>6. MarksOK'
  BY DEF OpenCheckout, handlerVars, Inv, MarksOK, CheckoutNeverLost
<1> QED
  BY <1>1, <1>2, <1>3, <1>4, <1>5, <1>6 DEF Inv

\* The subscription begins on the plan that was bought, which Stripe charges.
LEMMA CompleteCheckoutStep ==
  ASSUME Inv, NEW s \in Subs, CompleteCheckout(s)
  PROVE  Inv'
<1>1. TypeOK'
  BY ConstantsAssumption, HeldGrows DEF CompleteCheckout, handlerVars, Inv, TypeOK, RowsOK,
     Event, Subscription, Ops, UserOps, CheckoutEvent, PaidEvent, DeletedEvent
<1>2. RowsOK'
  <2>1. \A x \in Subs : held[x] \subseteq held'[x]
    BY DEF CompleteCheckout
  <2> QED
    BY <2>1, HeldGrows DEF CompleteCheckout, handlerVars, Inv, RowsOK
<1>3. StripeOK'
  <2>1. stripe[s].plan = stripe[s].bought
    BY DEF CompleteCheckout, Inv, StripeOK
  <2> QED
    BY DEF CompleteCheckout, Inv, TypeOK, StripeOK, Begun
<1>4. EventsOK'
  BY DEF CompleteCheckout, handlerVars, Inv, TypeOK, EventsOK, Begun, CheckoutEvent, PaidEvent,
     DeletedEvent
<1>5. HandlersOK'
  BY DEF CompleteCheckout, handlerVars, Inv, HandlersOK, HandlerOK
<1>6. MarksOK'
  BY DEF CompleteCheckout, handlerVars, Inv, MarksOK, CheckoutNeverLost
<1> QED
  BY <1>1, <1>2, <1>3, <1>4, <1>5, <1>6 DEF Inv

\* The end of a period changes dates in the copies, and no plan or identifier.
LEMMA ExpireStep ==
  ASSUME Inv, NEW s \in Subs, Expire(s)
  PROVE  Inv'
<1>1. TypeOK'
  <2>a. [stripe[s] EXCEPT !.state = "canceled", !.sched = Null] \in Subscription
    <3>1. stripe[s] \in Subscription
      BY DEF Inv, TypeOK
    <3> QED
      BY <3>1 DEF Subscription
  <2>1. stripe' \in [Subs -> Subscription]
    BY <2>a DEF Expire, Inv, TypeOK
  <2>2. billing' \in Row /\ row' \in [Handlers -> Row]
    BY ElapseOK DEF Expire, ElapseAll, Inv, TypeOK, RowsOK
  <2>3. inbox' \subseteq Event
    BY ConstantsAssumption DEF Expire, Inv, TypeOK, Event, DeletedEvent
  <2> QED
    BY <2>1, <2>2, <2>3 DEF Expire, Inv, TypeOK
<1>2. RowsOK'
  BY ElapseOK DEF Expire, ElapseAll, Inv, TypeOK, RowsOK
<1>3. StripeOK'
  BY DEF Expire, Inv, StripeOK, Begun
<1>4. EventsOK'
  BY DEF Expire, Inv, EventsOK, Begun, CheckoutEvent, PaidEvent, DeletedEvent
<1>5. HandlersOK'
  <2>1. \A h \in Handlers : row'[h].sub = row[h].sub
    BY ElapseOK DEF Expire, ElapseAll, Inv, TypeOK, RowsOK
  <2> QED
    BY <2>1 DEF Expire, Inv, HandlersOK, HandlerOK
<1>6. MarksOK'
  BY DEF Expire, Inv, MarksOK, CheckoutNeverLost
<1> QED
  BY <1>1, <1>2, <1>3, <1>4, <1>5, <1>6 DEF Inv

\* A renewal charges for the next plan: what was charged before stays so.
LEMMA RenewStep ==
  ASSUME Inv, NEW s \in Subs, Renew(s)
  PROVE  Inv'
<1>1. TypeOK'
  <2> DEFINE next == IF stripe[s].sched = Null THEN stripe[s].plan ELSE stripe[s].sched
  <2>1. next \in Plan
    BY DEF Inv, TypeOK, Subscription
  <2>a. [stripe[s] EXCEPT !.plan = next, !.sched = Null] \in Subscription
    BY DEF Inv, TypeOK, Subscription
  <2>2. stripe' \in [Subs -> Subscription] /\ held' \in [Subs -> SUBSET Plan]
    BY <2>1, <2>a DEF Renew, Inv, TypeOK
  <2>3. billing' \in Row /\ row' \in [Handlers -> Row]
    BY ElapseOK DEF Renew, ElapseAll, Inv, TypeOK, RowsOK
  <2>4. inbox' \subseteq Event /\ processed' \subseteq Event
    BY ConstantsAssumption DEF Renew, Inv, TypeOK, Event, PaidEvent
  <2> QED
    BY <2>2, <2>3, <2>4 DEF Renew, Inv, TypeOK
<1>2. RowsOK'
  <2>1. \A x \in Subs : held[x] \subseteq held'[x]
    BY DEF Renew
  <2>2. RowOK(billing', held) /\ \A h \in Handlers : RowOK(row'[h], held)
    BY ElapseOK DEF Renew, ElapseAll, Inv, TypeOK, RowsOK
  <2> QED
    BY <2>1, <2>2, HeldGrows DEF RowsOK
<1>3. StripeOK'
  BY DEF Renew, Inv, TypeOK, StripeOK, Begun
<1>4. EventsOK'
  BY DEF Renew, Inv, EventsOK, Begun, CheckoutEvent, PaidEvent, DeletedEvent
<1>5. HandlersOK'
  <2>1. \A h \in Handlers : row'[h].sub = row[h].sub
    BY ElapseOK DEF Renew, ElapseAll, Inv, TypeOK, RowsOK
  <2>2. \A x \in Subs : held[x] \subseteq held'[x]
    BY DEF Renew
  <2> QED
    BY <2>1 DEF Renew, Inv, HandlersOK, HandlerOK
<1>6. MarksOK'
  BY DEF Renew, Inv, MarksOK, CheckoutNeverLost
<1> QED
  BY <1>1, <1>2, <1>3, <1>4, <1>5, <1>6 DEF Inv

\* A subscription that Stripe drops keeps the plans it was charged for.
LEMMA StripeCancelsStep ==
  ASSUME Inv, NEW s \in Subs, StripeCancels(s)
  PROVE  Inv'
<1>1. TypeOK'
  <2>1. [stripe[s] EXCEPT !.state = "canceled", !.sched = Null] \in Subscription
    <3>1. stripe[s] \in Subscription
      BY DEF Inv, TypeOK
    <3> QED
      BY <3>1 DEF Subscription
  <2>2. stripe' \in [Subs -> Subscription]
    BY <2>1 DEF StripeCancels, Inv, TypeOK
  <2> QED
    BY ConstantsAssumption, <2>2 DEF StripeCancels, Inv, TypeOK, handlerVars, Event,
       DeletedEvent
<1>2. RowsOK'
  BY DEF StripeCancels, handlerVars, Inv, RowsOK
<1>3. StripeOK'
  BY DEF StripeCancels, Inv, StripeOK, Begun
<1>4. EventsOK'
  BY DEF StripeCancels, handlerVars, Inv, EventsOK, Begun, CheckoutEvent, PaidEvent,
     DeletedEvent
<1>5. HandlersOK'
  BY DEF StripeCancels, handlerVars, Inv, HandlersOK, HandlerOK
<1>6. MarksOK'
  BY DEF StripeCancels, handlerVars, Inv, MarksOK, CheckoutNeverLost
<1> QED
  BY <1>1, <1>2, <1>3, <1>4, <1>5, <1>6 DEF Inv

\* A date that passes changes no plan or identifier.
LEMMA DatePassesStep ==
  ASSUME Inv, NEW s \in Subs, DatePasses(s)
  PROVE  Inv'
<1>1. TypeOK'
  BY ElapseOK DEF DatePasses, ElapseAll, Inv, TypeOK, RowsOK, CheckoutEvent, PaidEvent,
     DeletedEvent
<1>2. RowsOK'
  BY ElapseOK DEF DatePasses, ElapseAll, Inv, TypeOK, RowsOK
<1>3. StripeOK'
  BY DEF DatePasses, Inv, StripeOK, Begun
<1>4. EventsOK'
  BY DEF DatePasses, Inv, EventsOK, Begun, CheckoutEvent, PaidEvent, DeletedEvent
<1>5. HandlersOK'
  <2>1. \A h \in Handlers : row'[h].sub = row[h].sub
    BY ElapseOK DEF DatePasses, ElapseAll, Inv, TypeOK, RowsOK
  <2> QED
    BY <2>1 DEF DatePasses, Inv, HandlersOK, HandlerOK
<1>6. MarksOK'
  BY DEF DatePasses, Inv, MarksOK, CheckoutNeverLost
<1> QED
  BY <1>1, <1>2, <1>3, <1>4, <1>5, <1>6 DEF Inv

\* A delivery of a marked event changes no row and no copy.
LEMMA DuplicateStep ==
  ASSUME Inv, NEW e \in inbox, Duplicate(e)
  PROVE  Inv'
<1>1. TypeOK'
  BY DEF Duplicate, handlerVars, Inv, TypeOK, CheckoutEvent, PaidEvent, DeletedEvent
<1>2. RowsOK'
  BY DEF Duplicate, handlerVars, Inv, RowsOK
<1>3. StripeOK'
  BY DEF Duplicate, Inv, StripeOK, Begun
<1>4. EventsOK'
  BY DEF Duplicate, handlerVars, Inv, EventsOK, Begun, CheckoutEvent, PaidEvent, DeletedEvent
<1>5. HandlersOK'
  BY DEF Duplicate, handlerVars, Inv, HandlersOK, HandlerOK
<1>6. MarksOK'
  BY DEF Duplicate, handlerVars, Inv, MarksOK, CheckoutNeverLost
<1> QED
  BY <1>1, <1>2, <1>3, <1>4, <1>5, <1>6 DEF Inv

\* The end of the trial is no step of the row.
LEMMA TrialEndsStep ==
  ASSUME Inv, TrialEnds
  PROVE  Inv'
<1>1. TypeOK'
  BY DEF TrialEnds, handlerVars, Inv, TypeOK, CheckoutEvent, PaidEvent, DeletedEvent
<1>2. RowsOK'
  BY DEF TrialEnds, handlerVars, Inv, RowsOK
<1>3. StripeOK'
  BY DEF TrialEnds, Inv, StripeOK, Begun
<1>4. EventsOK'
  BY DEF TrialEnds, handlerVars, Inv, EventsOK, Begun, CheckoutEvent, PaidEvent, DeletedEvent
<1>5. HandlersOK'
  BY DEF TrialEnds, handlerVars, Inv, HandlersOK, HandlerOK
<1>6. MarksOK'
  BY DEF TrialEnds, handlerVars, Inv, MarksOK, CheckoutNeverLost
<1> QED
  BY <1>1, <1>2, <1>3, <1>4, <1>5, <1>6 DEF Inv

\* A request starts with a copy of the row, which was coherent and paid for.
LEMMA StartStep ==
  ASSUME Inv, NEW h \in Handlers, NEW o \in UserOps, NEW p \in Targets(o), Start(h, o, p)
  PROVE  Inv'
<1>1. TypeOK'
  BY ConstantsAssumption DEF Start, Targets, Free, Plan, Inv, TypeOK, Ops, CheckoutEvent,
     PaidEvent, DeletedEvent
<1>2. RowsOK'
  BY DEF Start, Inv, RowsOK
<1>3. StripeOK'
  BY DEF Start, Inv, StripeOK, Begun
<1>4. EventsOK'
  BY DEF Start, Inv, EventsOK, WebhookOps, UserOps, Begun, CheckoutEvent, PaidEvent,
     DeletedEvent
<1>5. HandlersOK'
  BY DEF Start, Permitted, Inv, TypeOK, HandlersOK, HandlerOK, WebhookOps, UserOps
<1>6. MarksOK'
  BY DEF Start, Inv, MarksOK, CheckoutNeverLost
<1> QED
  BY <1>1, <1>2, <1>3, <1>4, <1>5, <1>6 DEF Inv

\* Stripe charges before the copy is changed, so the copy is paid for when it is saved.
LEMMA StripeAcceptsStep ==
  ASSUME Inv, NEW h \in Handlers, StripeAccepts(h)
  PROVE  Inv'
<1> DEFINE s == row[h].sub
<1> DEFINE u == AtStripe(op[h], stripe[s], arg[h])
<1> DEFINE r == Changed(op[h], row[h], arg[h])
<1>a. /\ s \in Subs
      /\ op[h] \in UserOps
      /\ arg[h] \in Plan
      /\ row[h] \in Row
      /\ stripe[s] \in Subscription
  BY DEF StripeAccepts, Inv, TypeOK, HandlersOK, HandlerOK, Row
<1>b. /\ u \in Subscription
      /\ u.state = stripe[s].state
      /\ u.bought = stripe[s].bought
      /\ u.plan = IF op[h] = "upgrade" THEN arg[h] ELSE stripe[s].plan
  BY <1>a, AtStripeOK
<1>c. /\ r \in Row
      /\ Coherent(r)
      /\ r.sub = s
      /\ r.plan = IF op[h] = "upgrade" THEN arg[h] ELSE row[h].plan
  BY <1>a, ChangedOK DEF StripeAccepts, Inv, RowsOK, RowOK, HandlersOK, HandlerOK
<1>d. /\ stripe' = [stripe EXCEPT ![s] = u]
      /\ held' = [held EXCEPT ![s] = @ \cup {u.plan}]
      /\ row' = [row EXCEPT ![h] = r]
      /\ pc' = [pc EXCEPT ![h] = "save"]
      /\ UNCHANGED <<billing, trialOver, op, arg, ev, applied, ops, faults>>
  BY DEF StripeAccepts
<1>e. \A x \in Subs : held[x] \subseteq held'[x]
  BY <1>d
<1>f. \/ UNCHANGED <<inbox, processed>>
      \/ \E i \in 1 .. MaxInvoices : /\ inbox' = inbox \cup {PaidEvent(s, i)}
                                     /\ processed' = processed \ {PaidEvent(s, i)}
  BY DEF StripeAccepts
<1>1. TypeOK'
  <2>1. stripe' \in [Subs -> Subscription]
    BY <1>b, <1>d DEF Inv, TypeOK
  <2>2. held' \in [Subs -> SUBSET Plan]
    BY <1>b, <1>d DEF Inv, TypeOK, Subscription
  <2>3. inbox' \subseteq Event /\ processed' \subseteq Event
    BY <1>a, <1>f DEF Inv, TypeOK, Event, PaidEvent
  <2> QED
    BY <2>1, <2>2, <2>3, <1>c, <1>d DEF Inv, TypeOK
<1>2. RowsOK'
  <2>1. RowOK(billing', held')
    BY <1>d, <1>e, HeldGrows DEF Inv, RowsOK
  <2>2. ASSUME NEW g \in Handlers, g # h
        PROVE  RowOK(row'[g], held')
    BY <2>2, <1>d, <1>e, HeldGrows DEF Inv, TypeOK, RowsOK
  <2>3. r.plan \in held'[s]
    BY <1>a, <1>b, <1>c, <1>d DEF Inv, TypeOK, RowsOK, RowOK, Entitled
  <2>4. RowOK(row'[h], held')
    BY <2>3, <1>c, <1>d DEF Inv, TypeOK, RowOK, Entitled
  <2> QED
    BY <2>1, <2>2, <2>4 DEF RowsOK
<1>3. StripeOK'
  BY <1>b DEF StripeAccepts, Inv, TypeOK, StripeOK, Begun
<1>4. EventsOK'
  <2>1. \A x \in Subs : Begun(x) => Begun(x)'
    BY <1>b, <1>d DEF Begun
  <2>2. Begun(s)
    BY DEF StripeAccepts, Begun
  <2> QED
    BY <2>1, <2>2, <1>a, <1>d, <1>f DEF Inv, TypeOK, EventsOK, HandlersOK, HandlerOK, Event,
       PaidEvent
<1>5. HandlersOK'
  BY <1>a, <1>d DEF Inv, TypeOK, HandlersOK, HandlerOK, UserOps
<1>6. MarksOK'
  BY <1>d, <1>f DEF Inv, MarksOK, CheckoutNeverLost
<1> QED
  BY <1>1, <1>2, <1>3, <1>4, <1>5, <1>6 DEF Inv

\* A refused request gives its copy up.
LEMMA StripeRefusesStep ==
  ASSUME Inv, NEW h \in Handlers, StripeRefuses(h)
  PROVE  Inv'
<1>1. TypeOK'
  BY ReturnOK DEF StripeRefuses, Inv, TypeOK
<1>2. RowsOK'
  BY DefaultRowOK DEF StripeRefuses, Return, Inv, RowsOK
<1>3. StripeOK'
  BY DEF StripeRefuses, Inv, StripeOK, Begun
<1>4. EventsOK'
  BY DEF StripeRefuses, Return, Inv, TypeOK, EventsOK, WebhookOps, Begun, CheckoutEvent,
     PaidEvent, DeletedEvent
<1>5. HandlersOK'
  BY DEF StripeRefuses, Return, Inv, TypeOK, HandlersOK, HandlerOK, WebhookOps
<1>6. MarksOK'
  BY DEF StripeRefuses, Return, Inv, MarksOK, CheckoutNeverLost
<1> QED
  BY <1>1, <1>2, <1>3, <1>4, <1>5, <1>6 DEF Inv

\* A cancellation that fails half way gives its copy up.
LEMMA ReleasedOnlyStep ==
  ASSUME Inv, NEW h \in Handlers, ReleasedOnly(h)
  PROVE  Inv'
<1>1. TypeOK'
  <2>1. row[h].sub \in Subs
    BY DEF ReleasedOnly, Inv, TypeOK, HandlersOK, HandlerOK, Row
  <2>2. stripe' \in [Subs -> Subscription]
    BY <2>1 DEF ReleasedOnly, Inv, TypeOK, Subscription
  <2> QED
    BY <2>2, ReturnOK, ConstantsAssumption DEF ReleasedOnly, Inv, TypeOK
<1>2. RowsOK'
  BY DefaultRowOK DEF ReleasedOnly, Return, Inv, RowsOK
<1>3. StripeOK'
  BY DEF ReleasedOnly, Inv, StripeOK, Begun
<1>4. EventsOK'
  BY DEF ReleasedOnly, Return, Inv, EventsOK, WebhookOps, Begun, CheckoutEvent, PaidEvent,
     DeletedEvent
<1>5. HandlersOK'
  BY DEF ReleasedOnly, Return, Inv, TypeOK, HandlersOK, HandlerOK, WebhookOps
<1>6. MarksOK'
  BY DEF ReleasedOnly, Return, Inv, MarksOK, CheckoutNeverLost
<1> QED
  BY <1>1, <1>2, <1>3, <1>4, <1>5, <1>6 DEF Inv

\* A request saves its copy, however old.
LEMMA SaveRequestStep ==
  ASSUME Inv, NEW h \in Handlers, SaveRequest(h)
  PROVE  Inv'
<1>1. TypeOK'
  BY ReturnOK DEF SaveRequest, Inv, TypeOK
<1>2. RowsOK'
  BY DefaultRowOK DEF SaveRequest, Return, Inv, RowsOK
<1>3. StripeOK'
  BY DEF SaveRequest, Inv, StripeOK, Begun
<1>4. EventsOK'
  BY DEF SaveRequest, Return, Inv, TypeOK, EventsOK, WebhookOps, Begun, CheckoutEvent,
     PaidEvent, DeletedEvent
<1>5. HandlersOK'
  BY DEF SaveRequest, Return, Inv, TypeOK, HandlersOK, HandlerOK, WebhookOps
<1>6. MarksOK'
  BY DEF SaveRequest, Return, Inv, MarksOK, CheckoutNeverLost
<1> QED
  BY <1>1, <1>2, <1>3, <1>4, <1>5, <1>6 DEF Inv

\* A delivery starts: its event is one Stripe has sent.
LEMMA ReceiveStep ==
  ASSUME Inv, NEW h \in Handlers, NEW e \in inbox, Receive(h, e)
  PROVE  Inv'
<1>1. TypeOK'
  BY DEF Receive, Inv, TypeOK, Event, Ops, CheckoutEvent, PaidEvent, DeletedEvent
<1>2. RowsOK'
  BY DEF Receive, Inv, RowsOK
<1>3. StripeOK'
  BY DEF Receive, Inv, StripeOK, Begun
<1>4. EventsOK'
  BY DEF Receive, Inv, TypeOK, EventsOK, Begun, CheckoutEvent, PaidEvent, DeletedEvent
<1>5. HandlersOK'
  BY DEF Receive, Inv, TypeOK, HandlersOK, HandlerOK, WebhookOps, Event
<1>6. MarksOK'
  BY DEF Receive, Inv, MarksOK, CheckoutNeverLost
<1> QED
  BY <1>1, <1>2, <1>3, <1>4, <1>5, <1>6 DEF Inv

\* A webhook handler copies the row; one that finds none is no checkout.
LEMMA LoadStep ==
  ASSUME Inv, NEW h \in Handlers, Load(h)
  PROVE  Inv'
<1>1. TypeOK'
  BY DEF Load, Inv, TypeOK, CheckoutEvent, PaidEvent, DeletedEvent
<1>2. RowsOK'
  BY DEF Load, Inv, RowsOK
<1>3. StripeOK'
  BY DEF Load, Inv, StripeOK, Begun
<1>4. EventsOK'
  BY DEF Load, Inv, EventsOK, Begun, CheckoutEvent, PaidEvent, DeletedEvent
<1>5. HandlersOK'
  <2>1. ASSUME NEW g \in Handlers, g # h
        PROVE  HandlerOK(g)'
    BY <2>1 DEF Load, Inv, HandlersOK, HandlerOK
  <2>2. HandlerOK(h)'
    <3>1. op[h] \in WebhookOps /\ pc[h] = "load"
      BY DEF Load, Inv, HandlersOK, HandlerOK
    <3>2. CASE op[h] # "checkout" /\ billing.sub # ev[h].sub
      BY <3>2 DEF Load, Inv, HandlersOK, HandlerOK
    <3>3. CASE op[h] = "paid" /\ billing.sub = ev[h].sub
      BY DEF Load, Inv, TypeOK, HandlersOK, HandlerOK
    <3>4. CASE op[h] = "checkout" \/ (op[h] = "deleted" /\ billing.sub = ev[h].sub)
      BY <3>4 DEF Load, Inv, HandlersOK, HandlerOK
    <3> QED
      BY <3>1, <3>2, <3>3, <3>4 DEF WebhookOps
  <2> QED
    BY <2>1, <2>2 DEF HandlersOK
<1>6. MarksOK'
  BY DEF Load, Inv, MarksOK, CheckoutNeverLost
<1> QED
  BY <1>1, <1>2, <1>3, <1>4, <1>5, <1>6 DEF Inv

\* A checkout pairs the subscription with the plan that was bought.
LEMMA SaveCheckoutStep ==
  ASSUME Inv, NEW h \in Handlers, SaveCheckout(h)
  PROVE  Inv'
<1>a. /\ ev[h].sub \in Subs
      /\ stripe[ev[h].sub].bought \in Plan
      /\ stripe[ev[h].sub].bought \in held[ev[h].sub]
  <2>1. ev[h] \in Event
    BY DEF SaveCheckout, Inv, HandlersOK, HandlerOK, WebhookOps
  <2>2. ev[h].sub \in Subs /\ Begun(ev[h].sub)
    BY <2>1 DEF SaveCheckout, Inv, EventsOK, WebhookOps, Event
  <2> QED
    BY <2>2 DEF Inv, TypeOK, StripeOK
<1>b. billing' \in Row /\ RowOK(billing', held)
  BY <1>a, CheckoutRowOK DEF SaveCheckout, Inv, TypeOK
<1>1. TypeOK'
  BY <1>a, <1>b DEF SaveCheckout, Inv, TypeOK
<1>2. RowsOK'
  BY <1>b DEF SaveCheckout, Inv, RowsOK
<1>3. StripeOK'
  BY DEF SaveCheckout, Inv, StripeOK, Begun
<1>4. EventsOK'
  BY DEF SaveCheckout, Inv, EventsOK, Begun, CheckoutEvent, PaidEvent, DeletedEvent
<1>5. HandlersOK'
  BY DEF SaveCheckout, Inv, HandlersOK, HandlerOK, WebhookOps
<1>6. MarksOK'
  BY DEF SaveCheckout, Inv, MarksOK, CheckoutNeverLost
<1> QED
  BY <1>1, <1>2, <1>3, <1>4, <1>5, <1>6 DEF Inv

\* An invoice handler saves its copy, however old.
LEMMA SaveTransactionStep ==
  ASSUME Inv, NEW h \in Handlers, SaveTransaction(h)
  PROVE  Inv'
<1>1. TypeOK'
  BY DEF SaveTransaction, Inv, TypeOK, CheckoutEvent, PaidEvent, DeletedEvent
<1>2. RowsOK'
  BY DEF SaveTransaction, Inv, RowsOK
<1>3. StripeOK'
  BY DEF SaveTransaction, Inv, StripeOK, Begun
<1>4. EventsOK'
  BY DEF SaveTransaction, Inv, EventsOK, Begun, CheckoutEvent, PaidEvent, DeletedEvent
<1>5. HandlersOK'
  BY DEF SaveTransaction, Inv, HandlersOK, HandlerOK
<1>6. MarksOK'
  BY DEF SaveTransaction, Inv, MarksOK, CheckoutNeverLost
<1> QED
  BY <1>1, <1>2, <1>3, <1>4, <1>5, <1>6 DEF Inv

\* The plan fetched is the one the subscription is charged for now.
LEMMA FetchPlanStep ==
  ASSUME Inv, NEW h \in Handlers, FetchPlan(h)
  PROVE  Inv'
<1>1. TypeOK'
  BY DEF FetchPlan, Inv, TypeOK, HandlersOK, HandlerOK, WebhookOps, Event, Subscription,
     CheckoutEvent, PaidEvent, DeletedEvent
<1>2. RowsOK'
  BY DEF FetchPlan, Inv, RowsOK
<1>3. StripeOK'
  BY DEF FetchPlan, Inv, StripeOK, Begun
<1>4. EventsOK'
  BY DEF FetchPlan, Inv, EventsOK, Begun, CheckoutEvent, PaidEvent, DeletedEvent
<1>5. HandlersOK'
  <2>1. ASSUME NEW g \in Handlers, g # h
        PROVE  HandlerOK(g)'
    BY <2>1 DEF FetchPlan, Inv, HandlersOK, HandlerOK
  <2>2. op[h] = "paid" /\ ev[h] \in Event /\ row[h].sub = ev[h].sub /\ ev[h].type = op[h]
    BY DEF FetchPlan, Inv, HandlersOK, HandlerOK, WebhookOps
  <2>3. stripe[ev[h].sub].plan \in held[ev[h].sub]
    BY <2>2 DEF Inv, EventsOK, StripeOK, WebhookOps, Event
  <2>4. HandlerOK(h)'
    BY <2>2, <2>3 DEF FetchPlan, Inv, TypeOK, HandlerOK, WebhookOps
  <2> QED
    BY <2>1, <2>4 DEF HandlersOK
<1>6. MarksOK'
  BY DEF FetchPlan, Inv, MarksOK, CheckoutNeverLost, HandlersOK, HandlerOK
<1> QED
  BY <1>1, <1>2, <1>3, <1>4, <1>5, <1>6 DEF Inv

\* An invoice handler saves its copy with the plan it fetched for its subscription.
LEMMA SavePlanStep ==
  ASSUME Inv, NEW h \in Handlers, SavePlan(h)
  PROVE  Inv'
<1>1. TypeOK'
  BY PaidRowOK DEF SavePlan, Inv, TypeOK, HandlersOK, HandlerOK, RowsOK, CheckoutEvent,
     PaidEvent, DeletedEvent
<1>2. RowsOK'
  BY PaidRowOK DEF SavePlan, Inv, TypeOK, RowsOK, HandlersOK, HandlerOK
<1>3. StripeOK'
  BY DEF SavePlan, Inv, StripeOK, Begun
<1>4. EventsOK'
  BY DEF SavePlan, Inv, EventsOK, Begun, CheckoutEvent, PaidEvent, DeletedEvent
<1>5. HandlersOK'
  BY DEF SavePlan, Inv, HandlersOK, HandlerOK, WebhookOps
<1>6. MarksOK'
  BY DEF SavePlan, Inv, MarksOK, CheckoutNeverLost
<1> QED
  BY <1>1, <1>2, <1>3, <1>4, <1>5, <1>6 DEF Inv

\* An invoice handler that fails leaves the row as it is.
LEMMA ReconcileFailsStep ==
  ASSUME Inv, NEW h \in Handlers, ReconcileFails(h)
  PROVE  Inv'
<1>1. TypeOK'
  BY ConstantsAssumption DEF ReconcileFails, Inv, TypeOK, CheckoutEvent, PaidEvent, DeletedEvent
<1>2. RowsOK'
  BY DEF ReconcileFails, Inv, RowsOK
<1>3. StripeOK'
  BY DEF ReconcileFails, Inv, StripeOK, Begun
<1>4. EventsOK'
  BY DEF ReconcileFails, Inv, EventsOK, Begun, CheckoutEvent, PaidEvent, DeletedEvent
<1>5. HandlersOK'
  BY DEF ReconcileFails, Inv, HandlersOK, HandlerOK, WebhookOps
<1>6. MarksOK'
  BY DEF ReconcileFails, Inv, MarksOK, CheckoutNeverLost, HandlersOK, HandlerOK
<1> QED
  BY <1>1, <1>2, <1>3, <1>4, <1>5, <1>6 DEF Inv

\* A deletion clears the subscription and the status together.
LEMMA SaveDeletedStep ==
  ASSUME Inv, NEW h \in Handlers, SaveDeleted(h)
  PROVE  Inv'
<1>1. TypeOK'
  BY DeletedRowOK DEF SaveDeleted, Inv, TypeOK, CheckoutEvent, PaidEvent, DeletedEvent
<1>2. RowsOK'
  BY DeletedRowOK DEF SaveDeleted, Inv, TypeOK, RowsOK
<1>3. StripeOK'
  BY DEF SaveDeleted, Inv, StripeOK, Begun
<1>4. EventsOK'
  BY DEF SaveDeleted, Inv, EventsOK, Begun, CheckoutEvent, PaidEvent, DeletedEvent
<1>5. HandlersOK'
  BY DEF SaveDeleted, Inv, HandlersOK, HandlerOK, WebhookOps
<1>6. MarksOK'
  BY DEF SaveDeleted, Inv, MarksOK, CheckoutNeverLost
<1> QED
  BY <1>1, <1>2, <1>3, <1>4, <1>5, <1>6 DEF Inv

\* Only a checkout that reached the row is marked.
LEMMA MarkStep ==
  ASSUME Inv, NEW h \in Handlers, Mark(h)
  PROVE  Inv'
<1>1. TypeOK'
  BY ConstantsAssumption, ReturnOK DEF Mark, Inv, TypeOK, HandlersOK, HandlerOK
<1>2. RowsOK'
  BY DefaultRowOK DEF Mark, Return, Inv, RowsOK
<1>3. StripeOK'
  BY DEF Mark, Inv, StripeOK, Begun
<1>4. EventsOK'
  BY DEF Mark, Return, Inv, TypeOK, EventsOK, WebhookOps, Begun, CheckoutEvent, PaidEvent,
     DeletedEvent
<1>5. HandlersOK'
  BY DEF Mark, Return, Inv, TypeOK, HandlersOK, HandlerOK, WebhookOps
<1>6. MarksOK'
  BY DEF Mark, Return, Inv, TypeOK, MarksOK, CheckoutNeverLost, HandlersOK, HandlerOK,
     CheckoutEvent
<1> QED
  BY <1>1, <1>2, <1>3, <1>4, <1>5, <1>6 DEF Inv

\* The trial job starts with a copy of the row.
LEMMA StartTrialExpiryStep ==
  ASSUME Inv, NEW h \in Handlers, StartTrialExpiry(h)
  PROVE  Inv'
<1>1. TypeOK'
  BY DEF StartTrialExpiry, Inv, TypeOK, Ops, CheckoutEvent, PaidEvent, DeletedEvent
<1>2. RowsOK'
  BY DEF StartTrialExpiry, Inv, RowsOK
<1>3. StripeOK'
  BY DEF StartTrialExpiry, Inv, StripeOK, Begun
<1>4. EventsOK'
  BY DEF StartTrialExpiry, Inv, EventsOK, WebhookOps, Begun, CheckoutEvent, PaidEvent,
     DeletedEvent
<1>5. HandlersOK'
  BY DEF StartTrialExpiry, Inv, TypeOK, HandlersOK, HandlerOK, WebhookOps
<1>6. MarksOK'
  BY DEF StartTrialExpiry, Inv, MarksOK, CheckoutNeverLost
<1> QED
  BY <1>1, <1>2, <1>3, <1>4, <1>5, <1>6 DEF Inv

\* The trial job saves the row of a tenant without a subscription.
LEMMA SaveTrialExpiryStep ==
  ASSUME Inv, NEW h \in Handlers, SaveTrialExpiry(h)
  PROVE  Inv'
<1>1. TypeOK'
  BY DefaultRowOK, ReturnOK DEF SaveTrialExpiry, Inv, TypeOK
<1>2. RowsOK'
  BY DefaultRowOK DEF SaveTrialExpiry, Return, Inv, RowsOK
<1>3. StripeOK'
  BY DEF SaveTrialExpiry, Inv, StripeOK, Begun
<1>4. EventsOK'
  BY DEF SaveTrialExpiry, Return, Inv, EventsOK, WebhookOps, Begun, CheckoutEvent, PaidEvent,
     DeletedEvent
<1>5. HandlersOK'
  BY DEF SaveTrialExpiry, Return, Inv, HandlersOK, HandlerOK, WebhookOps
<1>6. MarksOK'
  BY DEF SaveTrialExpiry, Return, Inv, MarksOK, CheckoutNeverLost
<1> QED
  BY <1>1, <1>2, <1>3, <1>4, <1>5, <1>6 DEF Inv

\* A handler that stops gives its copy up, and marks nothing.
LEMMA FailStep ==
  ASSUME Inv, NEW h \in Handlers, Fail(h)
  PROVE  Inv'
<1>1. TypeOK'
  BY ConstantsAssumption, ReturnOK DEF Fail, Inv, TypeOK
<1>2. RowsOK'
  BY DefaultRowOK DEF Fail, Return, Inv, RowsOK
<1>3. StripeOK'
  BY DEF Fail, Inv, StripeOK, Begun
<1>4. EventsOK'
  BY DEF Fail, Return, Inv, TypeOK, EventsOK, WebhookOps, Begun, CheckoutEvent, PaidEvent,
     DeletedEvent
<1>5. HandlersOK'
  BY DEF Fail, Return, Inv, TypeOK, HandlersOK, HandlerOK, WebhookOps
<1>6. MarksOK'
  BY DEF Fail, Return, Inv, TypeOK, MarksOK, CheckoutNeverLost
<1> QED
  BY <1>1, <1>2, <1>3, <1>4, <1>5, <1>6 DEF Inv

-----------------------------------------------------------------------------
(* The theorems.                                                           *)

\* The invariant holds of a tenant that has just been created.
LEMMA InvInit == Init => Inv
<1> SUFFICES ASSUME Init PROVE Inv
  OBVIOUS
<1>1. TypeOK
  <2>1. DefaultRow \in Row
    BY DefaultRowOK
  <2>2. NoSubscription \in Subscription /\ Free \in Plan
    BY ConstantsAssumption DEF NoSubscription, Subscription, Plan, Free
  <2>3. /\ billing \in Row /\ stripe \in [Subs -> Subscription]
        /\ inbox \subseteq Event /\ processed \subseteq Event /\ trialOver \in BOOLEAN
    BY <2>1, <2>2 DEF Init
  <2>4. /\ pc \in [Handlers -> {"idle", "call", "load", "tx", "fetch", "save", "mark"}]
        /\ op \in [Handlers -> Ops]
        /\ arg \in [Handlers -> Plan]
        /\ row \in [Handlers -> Row]
        /\ ev \in [Handlers -> Event \cup {Null}]
    BY <2>1, <2>2 DEF Init, Ops
  <2>5. /\ applied \subseteq Subs /\ held \in [Subs -> SUBSET Plan]
        /\ ops \in 0 .. MaxOps /\ faults \in 0 .. MaxFaults
    BY ConstantsAssumption DEF Init
  <2> QED
    BY <2>3, <2>4, <2>5 DEF TypeOK
<1>2. RowsOK
  BY DefaultRowOK DEF Init, RowsOK
<1>3. StripeOK /\ EventsOK /\ HandlersOK /\ MarksOK
  BY DEF Init, StripeOK, Begun, NoSubscription, EventsOK, WebhookOps, HandlersOK,
         HandlerOK, MarksOK, CheckoutNeverLost
<1> QED
  BY <1>1, <1>2, <1>3 DEF Inv

\* Every step of the service, of Stripe and of time keeps the invariant.
LEMMA InvNext == Inv /\ [Next]_vars => Inv'
<1> SUFFICES ASSUME Inv, [Next]_vars PROVE Inv'
  OBVIOUS
<1>1. CASE Stripe
  BY <1>1, OpenCheckoutStep, CompleteCheckoutStep, ExpireStep, RenewStep,
     StripeCancelsStep, DatePassesStep, DuplicateStep DEF Stripe
<1>2. CASE TrialEnds
  BY <1>2, TrialEndsStep
<1>3. ASSUME NEW h \in Handlers, Request(h)
      PROVE  Inv'
  BY <1>3, StartStep, StripeAcceptsStep, StripeRefusesStep, ReleasedOnlyStep,
     SaveRequestStep DEF Request
<1>4. ASSUME NEW h \in Handlers, Webhook(h)
      PROVE  Inv'
  BY <1>4, ReceiveStep, LoadStep, SaveCheckoutStep, SaveTransactionStep,
     FetchPlanStep, SavePlanStep, ReconcileFailsStep, SaveDeletedStep, MarkStep
     DEF Webhook
<1>5. ASSUME NEW h \in Handlers, TrialJob(h)
      PROVE  Inv'
  BY <1>5, StartTrialExpiryStep, SaveTrialExpiryStep DEF TrialJob
<1>6. ASSUME NEW h \in Handlers, Fail(h)
      PROVE  Inv'
  BY <1>6, FailStep
<1>7. CASE UNCHANGED vars
  BY <1>7 DEF vars, Inv, TypeOK, RowsOK, StripeOK, Begun, EventsOK, HandlersOK,
              HandlerOK, MarksOK, CheckoutNeverLost
<1> QED
  BY <1>1, <1>2, <1>3, <1>4, <1>5, <1>6, <1>7 DEF Next

\* The inductive invariant holds in every reachable state.
THEOREM Invariance == Spec => []Inv
BY InvInit, InvNext, PTL DEF Spec

\* Every variable keeps its type, for any plans, subscriptions and handlers.
THEOREM TypeCorrect == Spec => []TypeOK
<1>1. Inv => TypeOK
  BY DEF Inv
<1> QED
  BY <1>1, Invariance, PTL

\* Stale saves never separate the ACTIVE status from the subscription.
THEOREM RowIsCoherent == Spec => []RowCoherent
<1>1. Inv => RowCoherent
  BY DEF Inv, RowsOK, RowOK, Coherent, RowCoherent
<1> QED
  BY <1>1, Invariance, PTL

\* The plan of the row is one Stripe had the row's subscription on.
THEOREM PlanIsEntitled == Spec => []EntitledToPlan
<1>1. Inv => EntitledToPlan
  BY DEF Inv, RowsOK, RowOK, Entitled, EntitledToPlan
<1> QED
  BY <1>1, Invariance, PTL

\* A checkout event that is marked processed has reached the row.
THEOREM CheckoutIsNeverLost == Spec => []CheckoutNeverLost
<1>1. Inv => CheckoutNeverLost
  BY DEF Inv, MarksOK
<1> QED
  BY <1>1, Invariance, PTL
=============================================================================
