# Verification of the tenant service

TLA+ models of the multi-tenant referral service in `src/`: billing against Stripe, enforcement of payment,
the life of a tenant, metering, members, messages, and the smaller services beside them. TLC checks them on
small instances; TLAPS proves every invariant that these runs check, for all values of the constants. Section 1
is the inventory of the system, 2 the plan and what is left of it, 3 what is modelled, 4 what TLC checks, 5 what
is proved, 6 what is not modelled.

## 1. Inventory

The service is a NestJS process (several replicas) over PostgreSQL (TypeORM), Redis, BullMQ queues, SQS/SNS,
Stripe and Ory (Kratos, Keto). All long-lived state is in rows that requests, webhooks, queue consumers and
scheduled jobs load, change and save. No row has a version column, almost nothing runs in a transaction,
and `save` writes the whole loaded copy back: the recurring hazard of this code is a save of a stale copy. Its
second one is that the tenant comes from the request's context (CLS), which workers and some routes do not set,
and that two entities are loaded by a tenant column that they do not have (see 3 and 6).

| Component (under `src/src`) | State | Operations | Hard behaviour | Correct when | Module |
|---|---|---|---|---|---|
| Subscription billing (`billing/billing.service.ts`, `stripe.service.ts`) | one `BillingEntity` row per tenant | checkout, upgrade, downgrade, undo, cancel, reactivate; webhooks for checkouts, invoices, deletions | requests and webhooks overlap, a call to Stripe lies between load and save, events repeat and overtake each other | row and Stripe agree in the end; plan only as paid for; no completed checkout lost | `Billing` |
| Trial (`billing/trial-lifecycle.service.ts`) | `trialEndsAt` | reminders, expiry, early end by a checkout | a batch of stale copies | never undoes a paid subscription | `Billing` |
| Payment enforcement (`payment-status-escalation.service.ts`) | `paymentStatus` and its date | failed / paid invoices; daily escalation | stale batch, repeated failures, retries | grace periods respected, unpaid is locked in the end | `PaymentEnforcement` |
| Tenant lifecycle (`tenant/aware`, `tenant/agnostic`, `tenant/listeners`, `tenant/processors`) | status, lock and deletion columns; delayed jobs | suspend, lock, unlock, schedule / cancel / execute deletion | jobs outlive what they were made for, no load succeeds | no deletion before its grace period, requested deletions happen | `TenantLifecycle` |
| Tenant identity (`dns`, `tenant`) | slug, custom domain, relations in Keto, reservations | create, update, verify, transfer | lookups before saves, several statements per request | verified means proven; reservations hold; nothing stays half done | `TenantIdentity` |
| Usage metering (`billing/redis-usage`, `usage-tracker`, `daily-usage-calculator`, `monthly-usage-reset`, `listeners/referral-events.consumer`) | Redis counters, daily rows, threshold flags | increment, decrement, snapshot, reset | two stores, read-modify-write, redelivery, crash in the reset | a bounded overshoot, a summary before a counter goes, one warning | `UsageMetering` |
| Plan limits and guards (`billing/plan-limit.service.ts`, `common/guards`) | none | effective limits, answers of the guards | check then act | the limit as the plan, the trial and the grace give it | `PlanLimits` |
| Plans (`billing/plan.service.ts`, `plan-stripe-sync.service.ts`) | plan rows, cached list | CRUD, synchronisation | cache against row, failures within the synchronisation | cached list current, plans as sold | `PlanCatalog` |
| Subscription status and statistics (`tenant/aware/tenant-stats`, `getSubscription...`) | a cache per tenant | gather, cache, answer | old answers cached late, wrong context | what is shown was recently true | `SubscriptionStatus` |
| Payment methods, invoices (`billing.service.ts`, `stripe.service.ts`) | Stripe's customers and cards | setup intents, list, detach, default, invoices | check and call are apart while the customer is replaced | a tenant's own cards only | `PaymentMethods` |
| Invitations, team members (`invitation`, `team-member`) | invitation status, members and roles | invite, resend, revoke, accept, reject, expire; role, removal | accept is two saves; count then save | a settled invitation stays settled, one administrator stays | `Membership` |
| API keys (`api-key`) | key rows, audit log | create, update, stop, start, delete, verify | stale saves, late write of the last use | revoked stays revoked | `ApiKeys` |
| Feature flags (`common/feature-flag`) | a row with overrides, a cache | answer, set override | read-merge-save, late cache fill | overrides kept, answers current | `FeatureFlags` |
| Notification preferences (`tenant-setting`) | a row per user | read, update | two first requests, merged saves | preferences kept | `Preferences` |
| Events consumed (`common/aws-sqs`) | queues, dead letters, marks | consume, mark, replay | at-least-once, send then delete | nothing lost, repeated only for a reason | `EventDelivery`, `Channel` |
| Events announced (`*/listeners`) | none; the topic's deduplication window | publish | listeners run on their own, deduplication ids | subscribers know what is saved | `Announcements` |
| Outbound HTTP (`common/http`, `common/clients`) | tokens and fetches in flight | call, add token | a shared fetch, the interceptor on its own request | a call is sent | `OutboundCalls` |
| Request idempotency, files, tenant settings, configuration, migrations | | | | | none, see 6 |

Listeners, consumers and jobs connect the components: a service saves a row and emits an event; listeners, run
by nobody's leave, queue delayed jobs (`TenantLifecycle`) and publish on SNS (`Announcements`); consumers take
referral events from SQS (`EventDelivery`) and count them (`UsageMetering`); Stripe's webhooks change the billing
row (`Billing`) and the tenant row (`PaymentEnforcement`).

`PROJECT.json` lists the components with their status, and under "hazards" the places where the code is
exposed to an order of events that a test would hardly produce, with the properties that cover them.

## 2. Plan

Done: Billing and PaymentEnforcement; TenantLifecycle; PlanLimits and UsageMetering; Membership; EventDelivery
as an implementation of an abstract Channel; and the smaller services (identity, announcements, keys, plans,
statistics, cards, flags, preferences, outbound calls).

Left: a composition of TenantLifecycle with PaymentEnforcement over their one row (each has the other's saves
as writers of other columns today); the manual starts of the jobs beside the scheduled ones; an abstract
meter for UsageMetering (which it would implement only up to the losses named in 4).

## 3. What is modelled

A step of a model is what the code does between two awaits that others can get in between. A handler (request, webhook,
consumer, job) has a program counter and the copy it loaded; a save writes that copy. Failures (`...Fails`) are
exceptions of a statement and the end of the process, both of which drop the rest of the handler. `Max...`
constants are bounds. Variables commented "(history)" are read by no action; they record what a property speaks
of. Definitions named `X_Something` beside a definition `X` are faulty variants of it: replacing `X` by one of
them must break the property it is listed with in `PROJECT.json`, which shows that the property can fail.

### Billing (`Billing.tla`)

One tenant. `billing` is the row; `stripe[s]` is Stripe's record of subscription `s` (session opened,
active, cancelled; the plan it charges, the scheduled plan, cancel-at-period-end); `inbox` holds the
webhook events Stripe has not seen answered, `processed` the marks of `EventIdempotencyService`. A handler
`h` is a request, a webhook delivery or a run of the trial job:

| Code | Actions |
|---|---|
| `subscriptionCheckout` | `OpenCheckout` (no check against an existing subscription, as in the code) |
| `upgrade/downgrade/cancel/reactivateSubscription`, `cancelPendingDowngrade` | `Start` (load and checks: `Permitted`), `StripeAccepts` (`AtStripe`, `Changed`), `StripeRefuses` or `ReleasedOnly` (the first of two calls succeeded), `SaveRequest` |
| `handleStripeWebhook` | `Receive`, `Duplicate`, `Mark` (the answer to Stripe may be lost) |
| `handleCheckoutSessionCompleted` | `Load`, `SaveCheckout` (`CheckoutRow`; ends a running trial) |
| `handleInvoicePaymentSucceeded` | `Load`, `SaveTransaction`, `FetchPlan`, `SavePlan` (`PaidRow`), `ReconcileFails` |
| `handleCustomerSubscriptionDeleted` | `Load`, `SaveDeleted` (`DeletedRow`) |
| `handleTrialExpired` | `StartTrialExpiry`, `SaveTrialExpiry` |
| an exception not caught, a crash | `Fail` |

`CompleteCheckout`, `Expire`, `Renew`, `StripeCancels`, `DatePasses` and `TrialEnds` are Stripe and the
clock (external). Plans are their positions in `planOrder`. `cancellationEffectiveAt` is unset, past, or the
end of the current period of a subscription; it turns past when that period ends.

Abstractions: a column set to `undefined` is not written by `save` (this is why the expired trial stays
expired). The row exists from the start (creating it twice is excluded by the unique index and counts as
`Fail`). The price ids of the plans are configured, and Stripe reports the end of the period. Event identifiers
are unique per event; an invoice event that is no longer in flight gives its identifier to the next one. The 24 h
life of a mark and the audit, metric and SNS side effects are left out here (see Announcements).

### PaymentEnforcement (`PaymentEnforcement.tla`)

Any number of tenants, days as integers. `tenant[t]` is the row (status, paymentStatus,
paymentStatusChangedAt). A handler is a delivery of a failed or paid invoice (`Receive`, `LoadTenant`,
`SaveTenant`, `Ignore`, `Mark`, `Duplicate`) or an operation on other columns of the row (`LoadEdit`,
`SaveEdit`: suspend, unsuspend, and as "edit" the early end of a trial and the tenant save of the trial job).
The escalation job takes its whole batch in `StartJob` and saves one copy per
`EscalateTenant`; `JobFails` drops the rest and lets BullMQ try again from the query, `MaxAttempts` times.
`failedOn` and `owing` are history. A null date can only stem from rows older than the migration that fills it
in; the branch for it is modelled and not reached.

### TenantLifecycle (`TenantLifecycle.tla`)

One tenant row with status, `lockUntil` and `deletionScheduledAt`, and the two delayed jobs `unlock-<tenant>`
and `deletion-<tenant>` with their BullMQ state, due day and attempts. Requests are `Begin` (behind the guards:
`Admitted`), `Load` or `Refuse`, `Save`, and what the service or the listener then does to the queue: `QueueJob`
(an id in use is not queued again); `Remove` is `DELETE /tenants/:id`. The workers are `Take`, `LoadInJob`,
`SaveUnlocked` and `DeleteRow`; `Retried` and `Completed` are BullMQ's handling of an attempt. `Undef` is a
property set to `undefined`, which a save leaves out. An `update` may set any status, an `edit` stands for the
writers of other columns.

**The load that throws.** `AwareTenantService` and the two jobs load the tenant through `TenantAwareRepository`, whose
`findOne` adds a `tenantId` to the condition (`tenant-aware.repository.ts:71-80,104-107`). `TenantEntity` has no such
property (`tenant.entity.ts:11-102`), so TypeORM refuses the query: locking, unlocking, scheduling and cancelling a
deletion, executing one and ending a lock all throw at their load, whether or not the context has a tenant. `TenantLoads`
says which outcomes of such a load (`Finds`) a behaviour looks at. `{FALSE}` is the program as it is: then only
administrators (`suspend`, `unsuspend`), `edit` and `Remove` change the row and no job is ever queued. The run `lifecycle`
has `{FALSE, TRUE}`, a load that may also find its row, and the theorems have any `TenantLoads`: what they show holds of this
program, and of one in which the load has been repaired, when the rest of these handlers comes to life.

### PlanLimits and UsageMetering

`PlanLimits` are pure operators: the plan of an account, its limit with the grace percentage, the trial's end,
remaining capacity, and the answers of the billing and usage guards. `UsageMetering` extends it: one tenant and one metric, each
Redis command and each database statement a step. Requests check (`PlanLimits`) and then count; events count
without a check; `decrement` clamps in a second command; the daily job snapshots, compares with thresholds and
flags; the monthly job saves a summary and then deletes the counter, with retries.

### The services that share no state (`MCServices.tla`, `MCUsage.tla`)

Ten modules share no state. `MCServices` composes nine of them, and in each behaviour one of them
runs: no interleaving between them is lost, since none reads what another writes. It extends them, so that the run
and the theorems speak of the same definitions (they share `Null`, the absence of a value, which `Absence` declares).
`PlanCatalog`, the tenth, runs with `UsageMetering` in `MCUsage`, in the same way.

| Module | Processes and steps |
|---|---|
| `Membership` | requests with load, save, join, count and write; the hourly expiry job with its batch of copies. Members are of several tenants: a request on a member loads it whatever its tenant (`team-member.service.ts:49-54`), and counts, and deletes, in its own (`:62`, `:92`, `:111`) |
| `EventDelivery` | workers with receive, handler and acknowledgement, and, for a consumer with the service that keeps the marks (`marking`), a check before the handler and a mark after it. No consumer of this program has that service; both kinds are checked; visibility time-outs; the dead-letter queue; a replay (send, then delete) that a FIFO queue refuses |
| `TenantIdentity` | requests over slugs, reservations, domains with their tokens, relations; updates, verifications and transfers load the tenant as those of `TenantLifecycle` do, and `TenantLoads` says whether that may succeed (in this program it does not, and only creations go on); a DNS whose records come and go; days |
| `Announcements` | facts (payment, plan, suspension, deletion) and notices; each listener with the messages it has yet to publish; the deduplication window. `FactsOrNotices` in `MCServices` keeps the two kinds and more than two notices apart, because a message only displaces one of its own type. A message has the type it is published under: for updates and scheduled deletions that is `tenant.created`, with their own type in the data (`tenant.listener.ts:142,184`). A deduplication id is what remains of it after the cut at 128 characters (`billing.listener.ts:52`), which takes effect for a scheduled downgrade: its current plan is cut off |
| `ApiKeys` | dashboard requests (load, save, audit) and callers (find, verify, late write of the last use) |
| `PlanCatalog` | administrators, one reader that fills the cache, the synchronisation page by page and price by price |
| `SubscriptionStatus` | viewers that gather, cache and answer; the payment status derived from three sources. The calls to other services may succeed here (those of the program do not, see `InternalCallIsSent`) |
| `PaymentMethods` | requests call by call with Stripe, checkouts that replace the customer |
| `FeatureFlags` | readers that fill the cache, administrators that merge and save |
| `Preferences` | sessions that find or insert the row and merge. What the update emits has no listener, see 6 |

Abstractions: contents that no property tells apart are left out (names, scopes, amounts, mails, audit texts); a cache's
time to live is an action that may happen at any time or a period; figures of other services are small numbers.
`OutboundCalls` is a module of its own run: calls, the token cache, the fetches in flight, the breaker's time-out.

## 4. What TLC checks

| Run (`.cfg`) | Instance and bounds | Result |
|---|---|---|
| `billing` (`MCBilling`) | 1 subscription, plans 0 and 1, 2 handlers, 2 invoices, 2 requests, 1 failure, `FairSpec` | `TypeOK`, `RowCoherent`, `EntitledToPlan`, `CheckoutNeverLost`, `PlanConverges` hold |
| `billing_pending` | 1 subscription, 1 handler, 4 requests, no failure, `StrictSpec` | `PendingDowngradeClears` is violated |
| `billing_checkout` | 2 subscriptions, 1 handler, 2 requests, 1 failure | `CheckoutTakesEffect` is violated |
| `payment` (`MCPayment`) | 1 tenant, 2 handlers, grace 1 and 2 days, days 0 to 4, 2 invoices, 1 edit, 1 failure, 2 attempts, `TimelySpec` with horizon 1 | `TypeOK`, `GraceRespected`, `UnpaidIsLocked` hold |
| `payment_relief`, `payment_locked` | as above, 1 handler, no edit and no failure, horizon 4 | `OnlyPaymentRelieves`, `LockedOnlyIfUnpaid` are violated |
| `lifecycle` (`TenantLifecycle`) | 2 handlers, grace 1 day, days 0 to 2, 2 attempts, 3 requests, 1 failure, loads that throw or find the tenant, `JobsSpec` | `TypeOK`, `DeletedAfterGrace`, `OneWorkerPerJob`, `DueJobsEnd` hold |
| `lifecycle_deletion` | 1 handler, 1 request, grace 1 day, days 0 to 2, no failure, loads that throw (as in the code), `FairSpec` | `RequestedDeletionHappens` is violated |
| `usage` (`MCUsage`) | 2 handlers, 1 event of delta 1 received twice at most, a trial that ends on day 1 and a free plan with limit 1, amounts up to 2, months of 1 day, days 0 and 1, 2 attempts, 2 requests, 1 failure; or 2 prices on pages of one, 1 administrator, 2 edits, 1 failure; `PlansSpec` | `PlansTypeOK`, `NegativeIsClamped`, `OvershootBounded`, `ClearedIsSummarised`, `WarnedOnce`, `CacheAgrees`, `SyncedAgrees`, `MonthIsSummarised` hold |
| `services` (`MCServices`) | 2 of whatever acts concurrently, 1 of what is acted on where nothing compares two; the budgets are in the `.cfg`, and `ServicesInit` leaves out initial states that differ by a renaming; 2 tenants with 3 members, consumers with and without marks; about 670 000 states | the type invariants (`ServicesTypeOK`) and the eighteen properties of the nine services hold |
| `membership_accept` | 2 handlers, 1 invitation, no failure | `AcceptedJoins` is violated |
| `outbound_token` (`OutboundCalls`) | 2 calls, 1 service and the broker, no failure, `OSpec` | `InternalCallIsSent` is violated |

**Bounds.** Two handlers are what a stale save needs: one loads, the other saves, the first saves. Beyond that a
bound is chosen so that the case a property is about occurs: grace periods 1 and 2 differ, so mistaking one for the
other shows; four days reach LOCKED with a retry in between; three requests on a tenant are lock, unlock, lock, or
schedule, cancel, schedule, with the first job still in the queue; two days of one-day months are a reset with a
retry; three operations on an invitation are resend, answer and accept side by side; two overrides and two
administrators are what losing an override needs; three customers let a checkout replace a customer twice between
the calls of a request. `Max...` budgets end the behaviours, so the runs do not check for deadlock: a quiet system
may stop. That a bound is not too small is what the mutants show: each listed property is violated, in
the same run and within the same bounds, by a plausible bug in a mapped definition.

**Fairness.**

- `Billing`: handlers that have begun go on, periods end, Stripe repeats an event until it is answered (strongly
  fair, because a delivery may find every handler slot taken, a limit of the model and not of the service).
  `PlanConverges` rests on one timing assumption: when a period (a month) ends, the invoice events of the one before
  have been dealt with (`Renew`). Otherwise two overlapping deliveries could rewrite each other's plan for ever.
- `PaymentEnforcement`: `TimelySpec` makes the job of a day end on that day and lets Stripe fall silent after
  `Horizon`, so that the remaining days are enough to lock.
- `TenantLifecycle`: requests and jobs that have begun go on, BullMQ takes a due job (strongly, for the same
  reason): `JobsSpec`. For `RequestedDeletionHappens` days pass too: `FairSpec`.
- `UsageMetering`: a worker goes on with the monthly job it has. `Membership`: the hourly job runs.
  `EventDelivery`: consumers poll. `OutboundCalls`: the event loop runs continuations, the broker answers.

Failures, crashes, time-outs, requests and replays are never fair.

**What the passing properties excuse.** This code has lost updates, and a property that denied them would be
false. The history variables say when the excuse holds, as narrowly as the code allows: `overlapped` (two requests on
members of a tenant in progress at once), `crossed` (a tenant of which a request of another demoted a member, having
counted its own administrators), `disturbed` (two deliveries of an event at once; with marks, a failure between effect
and mark or an expired mark; without marks, any new delivery of an event that had its effect: a failed acknowledgement, a
handler that outlasts the visibility time-out, a replay that sends and does not delete), `raced`
and `interrupted` (a save in between, a request that stopped half-way), `excused`
(a notice that the topic takes for the repetition of another), `untold` (a change whose audit entry failed or overlapped),
`stale`, `clobbered`, `outdated`, `overwritten` (a copy loaded before
and saved or cached after a change). Each is set by the step that does the damage, and where a later step
repairs it, removed by that one. So `OverrideKept`, for instance, says two things: an override is only lost to a request
that had loaded the row before it was saved, and saving it again repairs it.

**What the violated properties show.**

- `PendingDowngradeClears`: `pendingDowngradePlan` is cleared only when the invoice webhook finds the row on
  a plan other than Stripe's. Cancelling releases the schedule at Stripe (`stripe.service.ts:367`)
  and keeps the column; after a reactivation or an upgrade the two plans agree, so the column stays set through
  every renewal and later downgrades are refused. `billing_scenarios.md:181-184` expects it to clear. The run
  uses `StrictSpec`, in which Stripe refuses to change `cancel_at_period_end` while a schedule is attached.
- `CheckoutTakesEffect`: a `checkout.session.completed` that arrives after its subscription was cancelled
  overwrites the current one. The deletion event had come first and found nothing to change.
- `OnlyPaymentRelieves`: another failed attempt of the same invoice takes a RESTRICTED or LOCKED tenant back
  to PAST_DUE and restarts its grace periods. The specification's diagram has payment as the only way back.
- `LockedOnlyIfUnpaid`: a payment handled between the job's query and its save is overwritten; the tenant
  that paid is restricted and then locked.
- `RequestedDeletionHappens`: the request for a deletion throws at the load described in 3, before it saves anything or
  queues the job, and the job would throw at its own. `README.md:554` and `:642-647` of the repository promise the row's
  change, the job and the end of the tenant. A tenant in the worker's context would not help: the load asks for a
  property that the entity does not have. `DeletedAfterGrace`, `OneWorkerPerJob` and `DueJobsEnd` are checked with loads
  of both outcomes.
- `AcceptedJoins`: the endpoint that accepts an invitation has no tenant in its context. The invitation is
  saved as accepted, the creation of the member throws, a second acceptance is refused.
- `InternalCallIsSent`: the interceptor of the HTTP client also runs for the request that fetches the token,
  which then waits for the fetch it is part of.

**Seen while modelling, without a run of their own.** `RedisUsageService.setLimit` (`redis-usage.service.ts:100`)
has no caller, so the limits in Redis that the daily job compares with (`daily-usage-calculator.service.ts:45`) are unset and
its thresholds, which `BILLING_TASKS.md:312` announces, are never reached (the `usage` run sets one, to check the code that
follows). `UsageTrackerService.increment` (`usage-tracker.service.ts:49`) loses increments of concurrent
requests to the daily row. No consumer has the idempotency service that the decorator looks for
(`sqs-event-handler.decorator.ts:54,72`, `tenant-events.consumer.ts:11`, `referral-events.consumer.ts:19-24`), where
`BILLING.md:226` asks for idempotent consumers: an event that was handled is handled again when its acknowledgement
fails, and referral events are counted before they fail for want of a tenant in the context
(`referral-events.consumer.ts:55`), so that each redelivery counts again. `member.removed` is emitted before the member is
removed (`team-member.service.ts:101`). `updateRole` loads the member by its id alone (`team-member.service.ts:49-54`) and counts the
administrators of the request's tenant (`:62`): where the two differ, the count protects the wrong tenant; `LastAdminStays`
names that as one of its two exceptions.

**More in the models than in the program.** Some handlers end earlier in the program than in their models, which go on as
the code is written. The safety properties and the theorems then cover behaviours that the program does not have yet; none
is missing.

- `TenantLifecycle` and `TenantIdentity`: behind the load that throws (see 3). What is live today is the work of
  administrators, trials and payments, creation of tenants, and hard removal.
- `Announcements`: behind the same load, so that updates, locks, deletions and transfers are not emitted today; nor are
  invitations, since `AwareInvitationService` loads the tenant for its name after the save (`aware-invitation.service.ts:49,117`).
  An invitation is there all the same, and `Membership` models it so. `member.joined` is not emitted either (`AcceptedJoins`).
- `SubscriptionStatus`: calls to other services succeed in the model and fail in the program (`InternalCallIsSent`), where
  every figure but the members is a zero.
- `UsageMetering`: the limit behind `WarnedOnce`, which nothing sets (above).
- `EventDelivery`: consumers with marks, and the replay, whose service (`dlq-replay.service.ts`) no module provides.
- `ApiKeys` speaks of the row: a caller that has found a key before it is revoked gets in with it.

## 5. What is proved

TLAPS checks the theorems of eight `..._proofs` modules, for all values of the constants: any number of tenants,
handlers, events, keys, cards and so on, and without the budgets of the runs being small. **Every invariant that a
passing run checks is a theorem**, and so is the safety part of the refinement `KeepsEveryEvent`.

| Proof module | Of | Theorems |
|---|---|---|
| `Billing_proofs` | `Billing` | `TypeCorrect`, `RowIsCoherent`, `PlanIsEntitled`, `CheckoutIsNeverLost` |
| `PaymentEnforcement_proofs` | `PaymentEnforcement` | `TypeCorrect`, `GraceIsRespected` |
| `TenantLifecycle_proofs` | `TenantLifecycle` | `TypeCorrect`, `DeletionWaits`, `WorkersAndJobsAgree`, `JobsTakeTheirCourse`, `AttemptsAreBounded` |
| `Usage_proofs` | `UsageMetering` | `TypeCorrect`, `NegativesAreClamped`, `ResetsAreSummarised`, `WarnsOnce`, `OvershootIsBounded` |
| | `PlanCatalog` | `CatalogTypeCorrect`, `CachedListAgrees`, `SyncAgreesWithStripe` |
| | `MCUsage` | `PlansImplementBoth`, `PlansAreSafe`, `PlansTypeCorrect` |
| `Access_proofs` | `Membership` | `MembersTypeCorrect`, `AnswersAreFinal`, `AdministratorStays` |
| | `ApiKeys` | `KeysTypeCorrect`, `RevocationHolds`, `TrailIsRight` |
| | `TenantIdentity` | `IdentityTypeCorrect`, `VerifiedDomainsAreProven`, `ReservationsHold`, `OnlyFailuresLeaveHalf` |
| `Messaging_proofs` | `EventDelivery` | `EventsTypeCorrect`, `RepeatsHaveReasons`, `QueueIsChannel` |
| | `Announcements` | `AnnouncementsTypeCorrect`, `SubscribersKnow`, `RaisedNoticesArrive` |
| `Account_proofs` | `PaymentMethods` | `CardsTypeCorrect`, `CardsAreOwn` |
| | `SubscriptionStatus` | `StatusTypeCorrect`, `ShownWasTrueRecently`, `PaymentShownWasTrue` |
| | `FeatureFlags` | `FlagsTypeCorrect`, `OverridesStay`, `AnswersAreRight` |
| | `Preferences` | `PreferencesTypeCorrect`, `PreferencesStay` |
| `Services_proofs` | `MCServices` | `ServicesImplementEach`, `ServicesAreSafe`, `ServicesKeepEveryEvent`, `ServicesTypeCorrect` |

**Assumptions.** No theorem has hypotheses of its own. What is assumed of the constants is named in the module that
declares them (`ConstantsAssumption`, `BoundsAssumption`, `KeysAssumption`, ...), and TLC evaluates it in every run. The
assumptions say that numbers are naturals, that a period or a limit is not zero where the code divides by it, that
`Null` is none of the values it is told apart from, and: `HandlersAssumption`, that there are finitely many
handlers (the bound on the overshoot counts them); `MembersAssumption`, that `Null` is no row or status;
`CatalogAssumption`, that what Stripe prices is in the catalogue; `AnnouncementsAssumption`, that the free plan is a plan.

**Inductive invariants.** A component has one (`Inv`, `KeysInv`, `CatalogInv`, ...), a lemma per action or per group of
actions that change the same variables, and a theorem per conjunct of interest. Each was first checked by TLC on a
small instance. What makes them inductive is nearly always the same idea: what is true of a row has to be true
of every copy of it that may still be saved, and an excuse (a history variable) has to be set before the copy does damage.

- **Billing**: any handler may save its copy at any time, so what holds of the row has to hold of every copy
  that may still be saved (`RowsOK`, `HandlersOK`); what a handler knows of Stripe is stated per program counter;
  `StripeOK`, `EventsOK` and `MarksOK` tie Stripe's records, the events in flight and the marks to the history.
- **PaymentEnforcement**: rows, copies and the job's batch are all `Backed`, that is, dated a grace period after a
  failed invoice; `EscalatedBacked` shows that moving on adds just the period required.
- **TenantLifecycle**: the row cannot carry the argument, because an update sets its status and a stale save its
  date. The job carries it: it was queued by a request with a due date a grace period later (`JobDated`), a
  job with the same id is never replaced, and a row is deleted only by the worker of that job (`OneRun`,
  `ExecutionDue`). From the same invariant follows an action property, `JobsTakeTheirCourse`: a worker writes the
  end of its job blindly, but the job is still there and still the one it took, so each step of the system moves a
  job along the course of a delayed BullMQ job (`JobMoves`), and it has an attempt left (`AttemptsAreBounded`).
- **UsageMetering**: the overshoot is the hard one. Requests that were admitted and are not counted yet are `Pending`.
  The usage alone does not bound them; the last one admitted does, since it was admitted on the usage at that time:
  some pending request fits under the ceiling together with the largest amounts of all the others (`Fits`, which stays
  true when any one of them is counted or given up: `Released`). The same has to hold for a counter of 0, because the month may
  change, or a counter be cleared or clamped, under the pending requests (`OvershootInv`). The lemmas on cardinalities
  come from `FiniteSetTheorems`; the lowest threshold exists by well-founded induction. `WarnedInv` counts a warning
  that is about to be reported, and the flag that keeps the next run from repeating it. `SummaryInv`: a job that is about
  to clear a counter has saved a summary of that month.
- **PlanCatalog**: while nothing interferes with a synchronisation, the prices it has still to do, the one it is at and
  those it has seen are together all that are sold, and when it turns to the plans, every active one without a sold price
  is on its list (`SyncAgrees`). A reader that was not overtaken holds the database's list (`ReaderAgrees`).
- **Membership**: nobody holds a copy of a settled invitation (`Settled`), so nobody can save over it. A member stays in
  its tenant (`SameTenant`), so that each tenant can be looked at on its own. Without an overlap at most one request on a
  tenant's members is between its load and its write (`OneAtATime`), and one that comes from that tenant and is about to
  write a member who is no administrator knows of another who is (`OneStays`).
- **ApiKeys**: every copy that may still be saved over a revoked key is stopped, a deletion or a start
  (`RevokedSaved`); a key the log must agree about is in the hands of at most one handler.
- **TenantIdentity**: a row is proven wherever it is, in the table, as it was loaded, or about to be saved
  (`RowsAreProven`, `RequestFits`); slugs differ (`SlugsDiffer`, the unique index); and as long as requests of two tenants
  have not overlapped, what the one tenant at work gives up or takes is reserved for nobody else and used by nobody else (`Alone`).
- **EventDelivery**: the invariant is about one event and does not change for the others (`EventOK`, `Elsewhere`).
  It counts copies: an event not yet handled has one in a queue, or with a consumer that still owns it, and during a
  replay one besides the letter about to be deleted. With marks, an undisturbed event that was handled is marked or about to
  be (`Once`); without them, it has no copy left but the letter about to be deleted (`OneCopy`). `QueueIsChannel`:
  every step of the queues is a step of `Channel` or a stutter.
- **Announcements**: what is on its way about a fact is what is saved, and if nothing is on its way it has been told
  (`FactsKept`); a notice is on its way, has arrived or may be missed (`NoticesKept`). The step that matters is a
  message dropped by the topic: `SameId` shows that two messages with one deduplication id are the same message, those
  of an invitation apart. The theorems are about any number of facts and notices together, without `FactsOrNotices`.
- **PaymentMethods**: the customer of a row, of a request and of an intent was made for that tenant
  (`RowsOwn`, `IntentsOwn`, `RequestsOwn`), and customers and cards are made once.
- **SubscriptionStatus**: every figure, wherever it is, is near the truth, with a bound on how long ago it was true: a period for
  what a request gathers, one more for each period of the cache's life, two more for what was taken from the cache
  (`GatheredNear`, `CachedNear`). `PaymentWas`: the status is in the set the request has lived through.
- **FeatureFlags**: a row to be saved is the saved one but for the change and the tenants that others have saved
  since (`Edits`); what a reader found is still true unless a change overtook it (`Finds`).
- **Preferences**: what a session will save is what was wanted, but for its own change and the channels others have saved
  since it loaded the row (`SavesWhatWasWanted`).
- **The compositions**: `StepOfEach` shows that a step of `MCServices` is, for each service, one of its own or none. So
  `ServicesSpec` implements the nine specifications (`ServicesImplementEach`), and each theorem about one of them holds
  of it: `ServicesAreSafe` has every safety invariant of the run, `ServicesKeepEveryEvent` the safety part of the
  refinement. `PlansImplementBoth` and `PlansAreSafe` do the same for `MCUsage`.

**Only model-checked.** The temporal properties `PlanConverges`, `UnpaidIsLocked`, `DueJobsEnd`, `MonthIsSummarised` and
`OverdueEnds`, and the fairness of `KeepsEveryEvent`: liveness rests on ENABLED, which is out of the prover's reach. And
the violations, which are counterexamples on one instance. `PlanLimits` consists of operators without a state; that its
limit is a number or none is used in `PendingFacts`.

The theorems are about the modules' own specifications without fairness (`Spec`, `KSpec`, ...), those of the
compositions about `ServicesSpec` and `PlansSpec`, which are what two of the runs check. The other runs check the same
`Spec`, or a `FairSpec` with it as a conjunct.

## 6. What is not modelled

- **Tenant settings** (`tenant-setting/aware/aware-tenant-setting.service.ts`): its operations filter on a `tenantId`
  column that the entity does not have, so there is no behaviour beyond the failing query.
- **Listeners and consumers of no module**: `TenantSettingListener` (absent from `tenant-setting.module.ts:24`; the spec
  `user-notification-preference.service.spec.ts:94` expects a publication that no running code makes), so nobody hears of a
  changed preference; `TeamMemberListener`, so nobody hears of a changed role or a removal; `CampaignEventsConsumer`.
- **Two workers for the deletion queue**: `TenantDeletionProcessor` is a provider of two modules
  (`tenant.module.ts:72`, `team-member.module.ts:25`). BullMQ gives a job to one worker, and `Handlers` may be any number.
- **Request idempotency** (`common/idempotency`): no controller carries the decorator, the interceptor never acts.
- **Code without callers**: claiming of jobs with back-off in the tenant-aware repository and
  `StripeService.applyScheduledDowngrade`. (`removeOverride` has none either, but is modelled.) **Pure reads**, such as
  `getUsageSummary`, when no property is about them.
- **Files and object storage**: single calls to S3, no state here.
- **Manual starts of the jobs** in `test-billing.controller.ts`, beside the scheduled ones; its requests that count
  usage are modelled.
- **Trial reminders** (a Redis flag and a notification), the monitor of the dead-letter queues (it logs), the 24-hour
  life of Stripe's marks.
- **Keto and JWT guards**: they ask another service and keep nothing. The open and half-open
  states of the circuit breaker are those of the `opossum` library; its time-out is modelled.
- **Configuration, logging, tracing, metrics, mail texts, DTO validation, migrations.**
