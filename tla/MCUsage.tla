------------------------------- MODULE MCUsage -------------------------------
(***************************************************************************)
(* Plans and their use: a small instance of UsageMetering for TLC and, in  *)
(* behaviours of its own, one of PlanCatalog, with which it shares no      *)
(* state.                                                                  *)
(***************************************************************************)
EXTENDS UsageMetering, PlanCatalog

VARIABLE running

NoTrial == [trialEndsAt |-> Null, manual |-> NoPlan, plan |-> NoPlan, status |-> "other"]

\* In a trial until day 1, then on the free plan with its trial expired.
InTrial == {[NoTrial EXCEPT !.trialEndsAt = 1]}

\* The free plan allows one unit, the starter plan any number.
SomePlans == [p \in BillingPlan |-> IF p = "free" THEN 1 ELSE Null]

\* Of the initial states of Stripe's prices, the one from which the others are reached.
PlansInit == running \in {"usage", "catalog"} /\ Init /\ PInit /\ sold = Priced

PlansNext ==
  /\ UNCHANGED running
  /\ \/ running = "usage" /\ Next /\ UNCHANGED pvars
     \/ running = "catalog" /\ PNext /\ UNCHANGED vars

\* The fairness of UsageMetering's FairSpec.
PlansSpec ==
  /\ PlansInit /\ [][PlansNext]_<<running, vars, pvars>>
  /\ WF_vars(running = "usage" /\ MonthlySteps)

PlansTypeOK == IF running = "usage" THEN TypeOK ELSE PTypeOK
=============================================================================
