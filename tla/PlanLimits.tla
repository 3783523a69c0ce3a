------------------------------ MODULE PlanLimits ------------------------------
(***************************************************************************)
(* What a tenant's plan lets it use of one metric: the pure part of        *)
(* PlanLimitService, as operators on an account and a plan catalogue.      *)
(*                                                                         *)
(* An account is what the service reads of a tenant: the end of its trial, *)
(* the limit of its manually invoiced plan (NoPlan when it has none) and   *)
(* its billing row (plan NoPlan when there is no row).  A catalogue gives  *)
(* for each plan the limit of the active plan row with the plan's price.   *)
(* A limit is Null where no row, no price or no entry for the metric       *)
(* exists: such a metric is not limited.                                   *)
(***************************************************************************)
EXTENDS Integers, Absence

CONSTANT NoPlan  \* no manual plan, or no billing row

BillingPlan == {"free", "starter"}

Limit == Nat \cup {Null}

Account == [trialEndsAt : Nat \cup {Null},
            manual      : Limit \cup {NoPlan},
            plan        : BillingPlan \cup {NoPlan},
            status      : {"active", "other"}]

Catalogue == [BillingPlan -> Limit]

-----------------------------------------------------------------------------
\* resolvePlanForTenant and getPlanLimits: a manual plan first, then the plan of
\* the billing row, and the FREE plan without one.
LimitOf(account, catalogue) ==
  IF account.manual # NoPlan THEN account.manual
  ELSE catalogue[IF account.plan = NoPlan THEN "free" ELSE account.plan]

TrialExpired(account, today) ==
  /\ account.trialEndsAt # Null
  /\ account.trialEndsAt <= today
  /\ account.manual = NoPlan
  /\ ~(account.plan # NoPlan /\ account.status = "active")

\* A limit with a grace percentage, rounded down.
Effective(limit, grace) ==
  IF grace > 0 THEN (limit * (100 + grace)) \div 100 ELSE limit

Exceeds(limit, usage, value, grace) ==
  limit # Null /\ usage + value > Effective(limit, grace)

\* enforceLimit: what it throws, or "ok".
Enforced(account, catalogue, today, usage, value, grace) ==
  IF value <= 0 THEN "ok"
  ELSE IF TrialExpired(account, today) THEN "trial_expired"
  ELSE IF Exceeds(LimitOf(account, catalogue), usage, value, grace) THEN "limit_exceeded"
  ELSE "ok"

\* UsageCheckGuard lets a request pass on every error but the limit's, the
\* expired trial's included; BillingGuard and the internal API let none pass.
UsageCheckAllows(answer) == answer # "limit_exceeded"
BillingAllows(answer) == answer = "ok"

\* getRemainingCapacity
Remaining(limit, usage) ==
  IF limit = Null THEN Null ELSE IF limit >= usage THEN limit - usage ELSE 0

\* canPerformAction
Allowed(limit, usage, count) == limit = Null \/ limit - usage >= count
=============================================================================
